---- MODULE Spec2Model ----
(***************************************************************************)
(* A model of wavetrace's tiling and satellite line-of-sight subsystem:    *)
(* tile addressing (utilities.py, downloader.py), tile cover selection,    *)
(* raster partitioning, the geoid lookup, the look angles and the          *)
(* compute_satellite_los pipeline (main.py).                               *)
(*                                                                         *)
(* Longitudes and latitudes are exact multiples of half an arc-second, so  *)
(* that whole degrees, the points 27.5 and 3.64 and the paddings 0.5/3600  *)
(* and 1.5/3600 of get_bounds are all integers.  Strings are sequences of  *)
(* one-character strings.                                                  *)
(***************************************************************************)
EXTENDS Integers, Sequences, FiniteSets, TLC

VARIABLES
    pc,               \* position of the running call
    raised,           \* "" or the exception that ended the call
    lon, lat,         \* arguments of get_tile_id / get_srtm_tile_name
    tile_id,          \* a tile id string (argument or return value)
    srtm_name,        \* return value of get_srtm_tile_name
    srtm_names,       \* return value of get_srtm_tile_names
    high_definition,  \* argument of get_bounds
    bounds,           \* return value of get_bounds, or the argument of
                      \* get_srtm_tile_names
    width, height, n, \* arguments of partition (pixel sizes, grid order)
    windows,          \* return value of partition
    geometries,       \* argument of compute_intersecting_tiles
    tile_ids,         \* argument of compute_intersecting_tiles
    result,           \* return value of compute_intersecting_tiles
    transmitters,     \* argument of get_covering_tiles_ids
    transmitter_buffer, \* argument of get_covering_tiles_ids
    is_zip,           \* compute_satellite_los: in_path ends with .zip
    make_shp,         \* compute_satellite_los: argument
    in_exists,        \* the file at in_path exists
    hgt_exists,       \* the .hgt file beside a .zip input exists
    hgt_extracted,    \* unpack_archive wrote that .hgt file in this call
    tmp_exists,       \* the directory made by mkdtemp exists
    tmp_files,        \* its files: name -> [state, window], the state being
                      \* "extracted", "shaded" or "built" and the window the
                      \* part of the input's pixel grid that the raster shows
    out_exists,       \* a file exists at out_path
    out_raster,       \* its raster, as a window of the input's pixel grid
    i,                \* loop index of compute_satellite_los
    subtile_names,    \* the list subtile_names
    num_tries,        \* argument of get_geoid_height
    responses,        \* the responses to its requests so far
    geoid_height,     \* return value of get_geoid_height
    enu,              \* compute_look_angles: the local vector (e, n, u)
    look,             \* return value of compute_look_angles
    geodetic,         \* compute_look_angles: lon, lat, height, satellite_lon
    task_pc,          \* position of each window's task when the loop body of
                      \* compute_satellite_los runs as concurrent tasks
    accesses,         \* the file accesses made by the tasks so far
    path_exists,      \* download_topography: the directory path exists
    requested,        \* download_topography: the files requested so far
    written,          \* download_topography: the files written so far
    options,          \* process_transmitters: the caller's model parameters
    splat_files       \* process_transmitters: the SPLAT! files written

tileVars ==
    <<lon, lat, tile_id, srtm_name, srtm_names, high_definition, bounds>>

partVars == <<width, height, n, windows>>

coverVars == <<geometries, tile_ids, result, transmitters, transmitter_buffer>>

losVars == <<is_zip, make_shp, in_exists, hgt_exists, hgt_extracted,
            tmp_exists, tmp_files,
             out_exists, out_raster, i, subtile_names>>

geoidVars == <<num_tries, responses, geoid_height>>

lookVars == <<enu, look, geodetic>>

taskVars == <<task_pc, accesses>>

downloadVars == <<path_exists, requested, written>>

splatVars == <<options, splat_files>>

vars == <<pc, raised, tileVars, partVars, coverVars, losVars, geoidVars,
          lookVars, taskVars, downloadVars, splatVars>>

----------------------------------------------------------------------------
(* Units and bounds *)

ArcSecondsPerDegree == 3600
UnitsPerDegree == 2 * ArcSecondsPerDegree

\* Half-width, in degrees, of the input windows around the sampled degrees.
Win == 1
\* Largest raster dimension and grid order given to partition.
MaxDim == 7
MaxN == 3
\* The raster dimension of test_partition.
TestDim == 10
\* Longest longitude field of the strings given to check_tile_id.
MaxLonField == 3
\* Longest lists given to compute_intersecting_tiles.
MaxGeoms == 2
MaxTileIds == 2
\* Largest grid order given to compute_satellite_los.
MaxLosN == 2
\* Longest list of transmitters given to get_covering_tiles_ids.
MaxTransmitters == 2
\* Largest width and height, in degrees, of the boxes given to
\* get_srtm_tile_names.
MaxBoxSpan == 2
\* Largest num_tries given to get_geoid_height.
MaxNumTries == 3
\* Largest height, in kilometres, given to compute_look_angles.
MaxHeight == 2

Deg(d) == d * UnitsPerDegree

----------------------------------------------------------------------------
(* Python built-ins used by the code *)

abs(x) == IF x < 0 THEN -x ELSE x

\* math.floor and math.ceil of a coordinate, in whole degrees
floor(x) == x \div UnitsPerDegree

ceil(x) == -((-x) \div UnitsPerDegree)

\* divmod(a, b) for b > 0
divmod(a, b) == <<a \div b, a % b>>

DigitChars == <<"0", "1", "2", "3", "4", "5", "6", "7", "8", "9">>

IsDigit(c) == \E k \in 1..10 : DigitChars[k] = c

DigitVal(c) == (CHOOSE k \in 1..10 : DigitChars[k] = c) - 1

RECURSIVE Digits(_)
Digits(k) ==
    IF k < 10 THEN <<DigitChars[k + 1]>>
    ELSE Digits(k \div 10) \o <<DigitChars[(k % 10) + 1]>>

RECURSIVE ZeroFill(_, _)
ZeroFill(s, w) == IF Len(s) >= w THEN s ELSE ZeroFill(<<"0">> \o s, w)

\* '{:d}'.format(k): no zeros are put in front
FormatD_unpadded(k, w) == IF k < 0 THEN <<"-">> \o Digits(-k) ELSE Digits(k)

\* '{:0wd}'.format(k): sign first, then zeros up to the width
FormatD(k, w) ==
    IF k < 0 THEN <<"-">> \o ZeroFill(Digits(-k), w - 1)
    ELSE ZeroFill(Digits(k), w)

\* t[a:b] and t[a:] for 0 <= a
PySlice(t, a, b) ==
    LET hi == IF b < Len(t) THEN b ELSE Len(t)
    IN  IF a >= hi THEN <<>> ELSE SubSeq(t, a + 1, hi)

PySliceFrom(t, a) == PySlice(t, a, Len(t))

RECURSIVE Strip(_)
Strip(s) ==
    IF Len(s) = 0 THEN s
    ELSE IF s[1] = " " THEN Strip(Tail(s))
    ELSE IF s[Len(s)] = " " THEN Strip(SubSeq(s, 1, Len(s) - 1))
    ELSE s

RECURSIVE DigitsValue(_)
DigitsValue(s) ==
    IF Len(s) = 0 THEN 0
    ELSE 10 * DigitsValue(SubSeq(s, 1, Len(s) - 1)) + DigitVal(s[Len(s)])

\* int(s) of a string: surrounding blanks and one sign are accepted
PyInt(s) ==
    LET t == Strip(s)
        signed == Len(t) > 0 /\ t[1] \in {"+", "-"}
        body == IF signed THEN Tail(t) ELSE t
    IN  IF Len(body) = 0 \/ \E k \in 1..Len(body) : ~IsDigit(body[k])
        THEN [ok |-> FALSE, val |-> 0]
        ELSE [ok |-> TRUE,
              val |-> IF signed /\ t[1] = "-" THEN -DigitsValue(body)
                      ELSE DigitsValue(body)]

\* float(s) of a string of digits, points, signs and blanks, in 1/1000:
\* surrounding blanks and one sign are accepted, then digits with at most
\* one point and at least one digit (up to three after the point)
PyFloat(s) ==
    LET t == Strip(s)
        signed == Len(t) > 0 /\ t[1] \in {"+", "-"}
        body == IF signed THEN Tail(t) ELSE t
        points == {k \in 1..Len(body) : body[k] = "."}
        point == IF points = {} THEN Len(body) + 1
                 ELSE CHOOSE k \in points : TRUE
        whole == SubSeq(body, 1, point - 1)
        part == SubSeq(body, point + 1, Len(body))
        thousandths == DigitsValue(PySlice(part \o <<"0", "0", "0">>, 0, 3))
        magnitude == 1000 * DigitsValue(whole) + thousandths
    IN  IF \/ Cardinality(points) > 1
           \/ \E k \in 1..Len(body) : ~IsDigit(body[k]) /\ body[k] # "."
           \/ Len(whole) + Len(part) = 0
        THEN [ok |-> FALSE, val |-> 0]
        ELSE [ok |-> TRUE,
              val |-> IF signed /\ t[1] = "-" THEN -magnitude ELSE magnitude]

in_range_inclusive(k, stop) == k <= stop

\* range(stop) holds k: the loop "for i in range(num_tries)" has a pass left
\* after k passes
in_range(k, stop) == k < stop

\* requests.codes.ok
codes_ok == 200

\* re.search of [\d\.\-]+ between the markers of the pattern: the whole of
\* what stands between them has to be digits, points and minus signs
search(text) ==
    /\ text # <<>>
    /\ \A k \in 1..Len(text) : IsDigit(text[k]) \/ text[k] \in {".", "-"}

\* Lines 689-692: the height in the text of a response, in 1/1000 m; not ok
\* when the pattern does not match or float() rejects the match
parse(text) ==
    IF search(text) THEN PyFloat(text) ELSE [ok |-> FALSE, val |-> 0]

----------------------------------------------------------------------------
(* utilities.py: tile addressing *)

\* TRUE when check_lonlat returns, FALSE when it raises ValueError
check_lonlat_strict(x, y) ==
    /\ Deg(-180) < x /\ x < Deg(180)
    /\ Deg(-90) < y /\ y < Deg(90)

check_lonlat(x, y) ==
    /\ Deg(-180) <= x /\ x <= Deg(180)
    /\ Deg(-90) <= y /\ y <= Deg(90)

\* TRUE when check_tile_id returns, FALSE when it raises ValueError
check_tile_id(t) ==
    LET la == PyInt(PySlice(t, 1, 3))
        lo == PyInt(PySliceFrom(t, 4))
    IN  /\ la.ok /\ lo.ok
        /\ t[1] \in {"N", "S"} /\ t[4] \in {"E", "W"}
        /\ 0 <= la.val /\ la.val <= 90 /\ 0 <= lo.val /\ lo.val <= 180

\* A call either returns a value or raises
Return(v) == [raised |-> "", val |-> v]

Raise(e) == [raised |-> e, val |-> <<>>]

\* The padding of get_bounds, in half arc-seconds
delta_swapped(hd) == IF hd THEN 3 ELSE 1

delta(hd) == IF hd THEN 1 ELSE 3

get_bounds(t, hd) ==
    IF ~check_tile_id(t) THEN Raise("ValueError")
    ELSE
    LET s_lat == PySlice(t, 0, 3)
        s_lon == PySliceFrom(t, 3)
        min_lat == IF s_lat[1] = "N" THEN PyInt(PySliceFrom(s_lat, 1)).val
                   ELSE -PyInt(PySliceFrom(s_lat, 1)).val
        min_lon == IF s_lon[1] = "E" THEN PyInt(PySliceFrom(s_lon, 1)).val
                   ELSE -PyInt(PySliceFrom(s_lon, 1)).val
    IN  Return(<<Deg(min_lon) - delta(hd), Deg(min_lat) - delta(hd),
                 Deg(min_lon + 1) + delta(hd), Deg(min_lat + 1) + delta(hd)>>)

get_tile_id_ceil(x, y) ==
    IF ~check_lonlat(x, y) THEN Raise("ValueError")
    ELSE
    LET aflon == ceil(abs(x))
        aflat == ceil(abs(y))
    IN  Return((<<IF y >= 0 THEN "N" ELSE "S">> \o FormatD(aflat, 2))
               \o (<<IF x >= 0 THEN "E" ELSE "W">> \o FormatD(aflon, 3)))

get_tile_id_trunc(x, y) ==
    IF ~check_lonlat(x, y) THEN Raise("ValueError")
    ELSE
    LET aflon == floor(abs(x))
        aflat == floor(abs(y))
    IN  Return((<<IF y >= 0 THEN "N" ELSE "S">> \o FormatD(aflat, 2))
               \o (<<IF x >= 0 THEN "E" ELSE "W">> \o FormatD(aflon, 3)))

get_tile_id(x, y) ==
    IF ~check_lonlat(x, y) THEN Raise("ValueError")
    ELSE
    LET aflon == abs(floor(x))
        aflat == abs(floor(y))
    IN  Return((<<IF y >= 0 THEN "N" ELSE "S">> \o FormatD(aflat, 2))
               \o (<<IF x >= 0 THEN "E" ELSE "W">> \o FormatD(aflon, 3)))

----------------------------------------------------------------------------
(* downloader.py: the downloader's own check and tile naming *)

downloader_check_lonlat(x, y) ==
    /\ Deg(-180) <= x /\ x <= Deg(180)
    /\ Deg(-90) <= y /\ y <= Deg(90)

get_srtm_tile_name_floor(x, y) ==
    IF ~downloader_check_lonlat(x, y) THEN Raise("ValueError")
    ELSE
    LET abs_lon == abs(floor(x))
        abs_lat == abs(floor(y))
    IN  Return((<<IF y >= 0 THEN "N" ELSE "S">> \o FormatD(abs_lat, 2))
               \o (<<IF x >= 0 THEN "E" ELSE "W">> \o FormatD(abs_lon, 3)))

get_srtm_tile_name(x, y) ==
    IF ~downloader_check_lonlat(x, y) THEN Raise("ValueError")
    ELSE
    LET abs_lon == ceil(abs(x))
        abs_lat == ceil(abs(y))
    IN  Return((<<IF y >= 0 THEN "N" ELSE "S">> \o FormatD(abs_lat, 2))
               \o (<<IF x >= 0 THEN "E" ELSE "W">> \o FormatD(abs_lon, 3)))

\* range(a, b, 1) as a list
range(a, b) == [k \in 1..(IF b > a THEN b - a ELSE 0) |-> a + k - 1]

\* get_srtm_tile_names(bounds): one call of get_srtm_tile_name per whole
\* degree pair, longitudes in the outer loop; the first call that raises
\* ends the function
get_srtm_tile_names(b) ==
    LET lons == range(floor(b[1]), ceil(b[3]))
        lats == range(floor(b[2]), ceil(b[4]))
        names == [k \in 1..(Len(lons) * Len(lats)) |->
                    get_srtm_tile_name(Deg(lons[((k - 1) \div Len(lats)) + 1]),
                                       Deg(lats[((k - 1) % Len(lats)) + 1]))]
    IN  IF \E k \in DOMAIN names : names[k].raised # ""
        THEN Raise("ValueError")
        ELSE Return([k \in DOMAIN names |-> names[k].val])

----------------------------------------------------------------------------
(* main.py: raster partitioning *)

Spans_no_remainder(m, k) ==
    LET q == divmod(m, k)[1]
    IN  [j \in 1..k |-> <<(j - 1) * q, q>>]

\* [f(0), ..., f(k-1)] + [last]
Spans(m, k) ==
    LET qr == divmod(m, k)
        q == qr[1]
        r == qr[2]
    IN  [j \in 1..k |-> IF j < k THEN <<(j - 1) * q, q>>
                        ELSE <<(k - 1) * q, q + r>>]

\* The windows listed column by column
partition_column_major(w, h, k) ==
    LET xs == Spans(w, k)
        ys == Spans(h, k)
    IN  [j \in 1..(k * k) |->
            LET xi == ((j - 1) \div k) + 1
                yi == ((j - 1) % k) + 1
            IN  <<xs[xi][1], ys[yi][1], xs[xi][2], ys[yi][2]>>]

\* partition(width, height, n): (xoff, yoff, xsize, ysize), row-major
partition(w, h, k) ==
    LET xs == Spans(w, k)
        ys == Spans(h, k)
    IN  [j \in 1..(k * k) |->
            LET yi == ((j - 1) \div k) + 1
                xi == ((j - 1) % k) + 1
            IN  <<xs[xi][1], ys[yi][1], xs[xi][2], ys[yi][2]>>]

----------------------------------------------------------------------------
(* utilities.py: tile cover.  A geometry is an axis-parallel rectangle     *)
(* <<min_x, min_y, max_x, max_y>>, a point when the corners coincide, or   *)
(* the buffer <<x, y, radius>> of a point, taken as the disk that          *)
(* Point.buffer approximates by a polygon inscribed in it.                 *)

\* box(*get_bounds(tile_id)), or the ValueError of get_bounds
build_polygon(tid) == get_bounds(tid, FALSE)

\* Distance along one axis from coordinate c to the interval [lo, hi]
Clearance(lo, hi, c) == IF c < lo THEN lo - c ELSE IF c > hi THEN c - hi ELSE 0

\* poly.intersects(geom) of a closed rectangle and a rectangle or a disk
intersects(poly, geom) ==
    IF Len(geom) = 3
    THEN LET dx == Clearance(poly[1], poly[3], geom[1])
             dy == Clearance(poly[2], poly[4], geom[2])
         IN  /\ dx <= geom[3] /\ dy <= geom[3]
             /\ dx * dx + dy * dy <= geom[3] * geom[3]
    ELSE /\ poly[1] <= geom[3] /\ geom[1] <= poly[3]
         /\ poly[2] <= geom[4] /\ geom[2] <= poly[4]

\* The inner loop: TRUE when some geometry from index k on hits poly
hits_first_only(poly, geoms, k) ==
    k <= Len(geoms) /\ intersects(poly, geoms[k])

RECURSIVE hits(_, _, _)
hits(poly, geoms, k) ==
    IF k > Len(geoms) THEN FALSE
    ELSE IF intersects(poly, geoms[k]) THEN TRUE
    ELSE hits(poly, geoms, k + 1)

\* Code points of the characters that occur in the strings of the model
CharCode(c) ==
    CASE c = " " -> 32 [] c = "+" -> 43 [] c = "-" -> 45
      [] IsDigit(c) -> 48 + DigitVal(c)
      [] c = "E" -> 69 [] c = "N" -> 78 [] c = "S" -> 83 [] c = "W" -> 87
      [] c = "e" -> 101 [] c = "n" -> 110

RECURSIVE StrLess(_, _)
\* s < t for Python strings
StrLess(s, t) ==
    IF Len(t) = 0 THEN FALSE
    ELSE IF Len(s) = 0 THEN TRUE
    ELSE IF s[1] # t[1] THEN CharCode(s[1]) < CharCode(t[1])
    ELSE StrLess(Tail(s), Tail(t))

RECURSIVE Insert(_, _)
Insert(x, sortedSeq) ==
    IF Len(sortedSeq) = 0 THEN <<x>>
    ELSE IF StrLess(x, sortedSeq[1]) THEN <<x>> \o sortedSeq
    ELSE <<sortedSeq[1]>> \o Insert(x, Tail(sortedSeq))

\* The list as built, left in iteration order
sorted_as_built(list) == list

RECURSIVE sorted(_)
\* sorted(list) of a list of strings
sorted(list) ==
    IF Len(list) = 0 THEN <<>> ELSE Insert(list[1], sorted(Tail(list)))

Range(f) == {f[k] : k \in DOMAIN f}

\* The outer loop over the ids in iteration order `order`, from result acc:
\* build_polygon raises at the first id it rejects; otherwise the ids whose
\* polygon some geometry hits are appended in iteration order
cover_loop(order, geoms, acc) ==
    IF \E k \in DOMAIN order : build_polygon(order[k]).raised # ""
    THEN Raise("ValueError")
    ELSE Return(acc \o SelectSeq(order,
                    LAMBDA tid : hits(build_polygon(tid).val, geoms, 1)))

\* The orders in which a set may be iterated
Orders(S) ==
    {o \in [1..Cardinality(S) -> S] : \A a, b \in DOMAIN o : a # b => o[a] # o[b]}

\* compute_intersecting_tiles when set(tile_ids) is iterated in `order`
compute_intersecting_tiles(geoms, order) ==
    LET r == cover_loop(order, geoms, <<>>)
    IN  IF r.raised # "" THEN r ELSE Return(sorted(r.val))

----------------------------------------------------------------------------
(* constants.py and main.py: the tiles that cover given transmitters *)

SRTM_NZ_TILE_IDS ==
    <<
    <<"S", "3", "5", "E", "1", "7", "2">>,
    <<"S", "3", "5", "E", "1", "7", "3">>,
    <<"S", "3", "6", "E", "1", "7", "3">>,
    <<"S", "3", "6", "E", "1", "7", "4">>,
    <<"S", "3", "6", "E", "1", "7", "5">>,
    <<"S", "3", "7", "E", "1", "7", "3">>,
    <<"S", "3", "7", "E", "1", "7", "4">>,
    <<"S", "3", "7", "E", "1", "7", "5">>,
    <<"S", "3", "7", "E", "1", "7", "6">>,
    <<"S", "3", "8", "E", "1", "7", "4">>,
    <<"S", "3", "8", "E", "1", "7", "5">>,
    <<"S", "3", "8", "E", "1", "7", "6">>,
    <<"S", "3", "8", "E", "1", "7", "7">>,
    <<"S", "3", "8", "E", "1", "7", "8">>,
    <<"S", "3", "9", "E", "1", "7", "4">>,
    <<"S", "3", "9", "E", "1", "7", "5">>,
    <<"S", "3", "9", "E", "1", "7", "6">>,
    <<"S", "3", "9", "E", "1", "7", "7">>,
    <<"S", "3", "9", "E", "1", "7", "8">>,
    <<"S", "4", "0", "E", "1", "7", "3">>,
    <<"S", "4", "0", "E", "1", "7", "4">>,
    <<"S", "4", "0", "E", "1", "7", "5">>,
    <<"S", "4", "0", "E", "1", "7", "6">>,
    <<"S", "4", "0", "E", "1", "7", "7">>,
    <<"S", "4", "0", "E", "1", "7", "8">>,
    <<"S", "4", "1", "E", "1", "7", "2">>,
    <<"S", "4", "1", "E", "1", "7", "3">>,
    <<"S", "4", "1", "E", "1", "7", "4">>,
    <<"S", "4", "1", "E", "1", "7", "5">>,
    <<"S", "4", "1", "E", "1", "7", "6">>,
    <<"S", "4", "2", "E", "1", "7", "1">>,
    <<"S", "4", "2", "E", "1", "7", "2">>,
    <<"S", "4", "2", "E", "1", "7", "3">>,
    <<"S", "4", "2", "E", "1", "7", "4">>,
    <<"S", "4", "2", "E", "1", "7", "5">>,
    <<"S", "4", "2", "E", "1", "7", "6">>,
    <<"S", "4", "3", "E", "1", "7", "0">>,
    <<"S", "4", "3", "E", "1", "7", "1">>,
    <<"S", "4", "3", "E", "1", "7", "2">>,
    <<"S", "4", "3", "E", "1", "7", "3">>,
    <<"S", "4", "3", "E", "1", "7", "4">>,
    <<"S", "4", "4", "E", "1", "6", "8">>,
    <<"S", "4", "4", "E", "1", "6", "9">>,
    <<"S", "4", "4", "E", "1", "7", "0">>,
    <<"S", "4", "4", "E", "1", "7", "1">>,
    <<"S", "4", "4", "E", "1", "7", "2">>,
    <<"S", "4", "4", "E", "1", "7", "3">>,
    <<"S", "4", "5", "E", "1", "6", "7">>,
    <<"S", "4", "5", "E", "1", "6", "8">>,
    <<"S", "4", "5", "E", "1", "6", "9">>,
    <<"S", "4", "5", "E", "1", "7", "0">>,
    <<"S", "4", "5", "E", "1", "7", "1">>,
    <<"S", "4", "6", "E", "1", "6", "6">>,
    <<"S", "4", "6", "E", "1", "6", "7">>,
    <<"S", "4", "6", "E", "1", "6", "8">>,
    <<"S", "4", "6", "E", "1", "6", "9">>,
    <<"S", "4", "6", "E", "1", "7", "0">>,
    <<"S", "4", "6", "E", "1", "7", "1">>,
    <<"S", "4", "7", "E", "1", "6", "6">>,
    <<"S", "4", "7", "E", "1", "6", "7">>,
    <<"S", "4", "7", "E", "1", "6", "8">>,
    <<"S", "4", "7", "E", "1", "6", "9">>,
    <<"S", "4", "7", "E", "1", "7", "0">>,
    <<"S", "4", "8", "E", "1", "6", "7">>,
    <<"S", "4", "8", "E", "1", "6", "8">>
    >>

\* A transmitter is a record; only its longitude and latitude are used
get_lonlats(ts) == [k \in DOMAIN ts |-> <<ts[k].longitude, ts[k].latitude>>]

\* get_covering_tiles_ids when the set of candidates is iterated in `order`.
\* The argument tids is not handed on: line 323 calls
\* compute_intersecting_tiles(blobs), whose candidates default to
\* SRTM_NZ_TILE_IDS.
get_covering_tiles_ids(ts, buffer, tids, order) ==
    LET ps == get_lonlats(ts)
        blobs == [k \in DOMAIN ps |-> <<ps[k][1], ps[k][2], buffer>>]
    IN  compute_intersecting_tiles(blobs, order)

----------------------------------------------------------------------------
(* main.py: compute_look_angles, lines 659-668.  The input is the vector   *)
(* (e, n, u) from the ground point to the satellite in the local           *)
(* east-north-up frame, with whole-number components.  Angles are doubles, *)
(* counted in units of a quarter of the spacing that doubles have next to  *)
(* 2*pi: every count is a double near zero, only every Ulp-th is one near  *)
(* 2*pi.                                                                   *)

\* Spacing of the doubles next to 2*pi
Ulp == 4

\* math.pi
pi == 1440

\* A ratio of components that is below the spacing of doubles next to pi
Negligible == 1000

\* degrees() returns counts of 1/AngleDen degree
AngleDen == 8

sgn(x) == IF x < 0 THEN -1 ELSE IF x > 0 THEN 1 ELSE 0

\* The largest whole number of lo..(hi - 1) whose square is at most x
RECURSIVE sqrt_between(_, _, _)
sqrt_between(x, lo, hi) ==
    IF hi - lo <= 1 THEN lo
    ELSE LET mid == (lo + hi) \div 2
         IN  IF mid * mid <= x THEN sqrt_between(x, mid, hi)
             ELSE sqrt_between(x, lo, mid)

\* The first whole number whose square is not a 32-bit integer
SqrtLimit == 46341

\* math.sqrt of a whole number, rounded down
sqrt(x) == sqrt_between(x, 0, SqrtLimit)

\* math.atan2(y, x), rounded to a double: the exact values on the axes and
\* the diagonals; next to an axis the value one count from zero, or the
\* axis's own nonzero value, which is the nearest double; in between, the
\* middle of the octant
atan2(y, x) ==
    IF y = 0 THEN (IF x >= 0 THEN 0 ELSE pi)
    ELSE IF x = 0 THEN sgn(y) * (pi \div 2)
    ELSE IF abs(y) * Negligible <= abs(x)
         THEN (IF x > 0 THEN sgn(y) ELSE sgn(y) * pi)
    ELSE IF abs(x) * Negligible <= abs(y) THEN sgn(y) * (pi \div 2)
    ELSE IF abs(y) = abs(x)
         THEN sgn(y) * (IF x > 0 THEN pi \div 4 ELSE 3 * (pi \div 4))
    ELSE IF abs(y) < abs(x)
         THEN sgn(y) * (IF x > 0 THEN pi \div 8 ELSE 7 * (pi \div 8))
    ELSE sgn(y) * (IF x > 0 THEN 3 * (pi \div 8) ELSE 5 * (pi \div 8))

\* x + y for a sum next to 2*pi: the exact sum rounded to the nearest
\* double, to the even one of two equally near
add(x, y) ==
    LET lo == ((x + y) \div Ulp) * Ulp
        rest == (x + y) - lo
    IN  IF 2 * rest < Ulp THEN lo
        ELSE IF 2 * rest > Ulp THEN lo + Ulp
        ELSE IF (lo \div Ulp) % 2 = 0 THEN lo ELSE lo + Ulp

\* math.degrees(x)
degrees(x) == (180 * AngleDen * x) \div pi

\* Lines 659-668 of compute_look_angles for the local vector v = (e, n, u)
compute_look_angles(v) ==
    LET east == v[1]
        north == v[2]
        up == v[3]
        alp0 == atan2(east, north)
        nu == atan2(up, sqrt(east * east + north * north))
        alp == IF alp0 < 0 THEN add(alp0, 2 * pi) ELSE alp0
    IN  <<degrees(alp), degrees(nu)>>

----------------------------------------------------------------------------
(* main.py: download_topography.  The repository answers a request with a  *)
(* file, with a status that is not OK, or not at all.                       *)

\* The first id alone is looked up
is_subset_first(ids, allowed) == ids = <<>> \/ ids[1] \in Range(allowed)

\* set(ids) <= set(allowed)
is_subset(ids, allowed) == Range(ids) \subseteq Range(allowed)

\* 'srtm1/{!s}.SRTMGL1.hgt.zip'.format(t) or 'srtm3/{!s}.SRTMGL3.hgt.zip'
file_name(t, hd) ==
    LET d == IF hd THEN "1" ELSE "3"
    IN  <<"s", "r", "t", "m", d, "/">> \o t
        \o <<".", "S", "R", "T", "M", "G", "L", d, ".", "h", "g", "t", ".",
             "z", "i", "p">>

\* Lines 346-349
file_names(ids, hd) == [k \in DOMAIN ids |-> file_name(ids[k], hd)]

\* file_name.split('/')[-1] for a name with one slash, the sixth character
base_name(name) == SubSeq(name, 7, Len(name))

----------------------------------------------------------------------------
(* main.py: check_and_format_transmitters.  A transmitter is a function    *)
(* from field names to strings; a float is a record holding its value in   *)
(* 1/1000.                                                                  *)

\* constants.py
REQUIRED_TRANSMITTER_FIELDS ==
    <<"network_name", "site_name", "latitude", "longitude", "antenna_height",
      "polarization", "frequency", "power_eirp">>

\* Line 151
float_keys ==
    <<"latitude", "longitude", "antenna_height", "polarization", "frequency",
      "power_eirp">>

\* s.replace(' ', '')
without_blanks(s) == SelectSeq(s, LAMBDA c : c # " ")

\* Lines 162-173
build_transmitter_name(network_name, site_name) ==
    without_blanks(network_name) \o <<"_">> \o without_blanks(site_name)

\* The body of the try statement succeeds when the name can be built
formats_name_only(t) == {"network_name", "site_name"} \subseteq DOMAIN t

\* Lines 148-153: the body of the try statement succeeds
formats(t) ==
    /\ {"network_name", "site_name"} \subseteq DOMAIN t
    /\ \A k \in DOMAIN float_keys :
          /\ float_keys[k] \in DOMAIN t
          /\ PyFloat(t[float_keys[k]]).ok

\* Lines 149-153: t with its name and its floats
formatted(t) ==
    [key \in DOMAIN t \cup {"name"} |->
        IF key = "name"
        THEN build_transmitter_name(t["network_name"], t["site_name"])
        ELSE IF key \in Range(float_keys)
             THEN [float |-> PyFloat(t[key]).val]
        ELSE t[key]]

\* Lines 120-160
check_and_format_transmitters(ts) ==
    IF ts = <<>> THEN Raise("ValueError")
    ELSE IF ~(Range(REQUIRED_TRANSMITTER_FIELDS) \subseteq DOMAIN ts[1])
         THEN Raise("ValueError")
    ELSE IF \E k \in DOMAIN ts : ~formats(ts[k]) THEN Raise("ValueError")
    ELSE Return([k \in DOMAIN ts |-> formatted(ts[k])])

----------------------------------------------------------------------------
(* main.py and cli.py: process_transmitters.  Float parameters are whole   *)
(* counts of 1/1000; the text of an LRP file is the record of the values   *)
(* that its lines show.                                                     *)

\* constants.py, in 1/1000 (RADIO_CLIMATE is a code)
EARTH_DIELECTRIC_CONSTANT == 15000

EARTH_CONDUCTIVITY == 5

RADIO_CLIMATE == 6

FRACTION_OF_TIME == 500

FRACTION_OF_SITUATIONS == 500

\* The value of a keyword argument or option: the default when not given
get(kwargs, key, default) ==
    IF key \in DOMAIN kwargs THEN kwargs[key] ELSE default

qth == <<".", "q", "t", "h">>
lrp == <<".", "l", "r", "p">>
az == <<".", "a", "z">>
el == <<".", "e", "l">>

\* main.py, lines 195-234
build_splat_lrp(t, kwargs) ==
    [earth_dielectric_constant |->
        get(kwargs, "earth_dielectric_constant", EARTH_DIELECTRIC_CONSTANT),
     earth_conductivity |->
        get(kwargs, "earth_conductivity", EARTH_CONDUCTIVITY),
     frequency |-> t.frequency,
     radio_climate |-> get(kwargs, "radio_climate", RADIO_CLIMATE),
     polarization |-> t.polarization,
     fraction_of_situations |->
        get(kwargs, "fraction_of_situations", FRACTION_OF_SITUATIONS),
     fraction_of_time |-> get(kwargs, "fraction_of_time", FRACTION_OF_TIME),
     power_eirp |-> t.power_eirp]

\* main.py, lines 80-91: the four files of transmitter t
splat_files_of(t, a) ==
    (t.name \o qth :> [written_by |-> "build_splat_qth"])
    @@ (t.name \o lrp :>
            build_splat_lrp(t,
                [earth_dielectric_constant |-> a.earth_dielectric_constant,
                 earth_conductivity |-> a.earth_conductivity,
                 radio_climate |-> a.radio_climate,
                 fraction_of_time |-> a.fraction_of_time]))
    @@ (t.name \o az :> [written_by |-> "build_splat_az"])
    @@ (t.name \o el :> [written_by |-> "build_splat_el"])

\* main.py, lines 27-91, for the transmitters ts that read_transmitters
\* returns and the keyword arguments kwargs: the files in out_path
\* afterwards, a later file replacing an earlier one of the same name
RECURSIVE write_splat_files(_, _, _)
write_splat_files(ts, a, files) ==
    IF ts = <<>> THEN files
    ELSE write_splat_files(Tail(ts), a, splat_files_of(Head(ts), a) @@ files)

process_transmitters(ts, kwargs) ==
    LET a == [earth_dielectric_constant |->
                get(kwargs, "earth_dielectric_constant",
                    EARTH_DIELECTRIC_CONSTANT),
              earth_conductivity |->
                get(kwargs, "earth_conductivity", EARTH_CONDUCTIVITY),
              radio_climate |-> get(kwargs, "radio_climate", RADIO_CLIMATE),
              fraction_of_time |->
                get(kwargs, "fraction_of_time", FRACTION_OF_TIME),
              fraction_of_situations |->
                get(kwargs, "fraction_of_situations", FRACTION_OF_SITUATIONS)]
    IN  IF ts = <<>> THEN Raise("ValueError")
        ELSE Return(write_splat_files(ts, a, <<>>))

\* cli.py, lines 12-59: click fills in the defaults of the options not
\* given, and the command passes them on by keyword
cli_process_transmitters(ts, opts) ==
    LET earth_dielectric_constant ==
            get(opts, "earth_dielectric_constant", EARTH_DIELECTRIC_CONSTANT)
        earth_conductivity ==
            get(opts, "earth_conductivity", EARTH_CONDUCTIVITY)
        radio_climate == get(opts, "radio_climate", RADIO_CLIMATE)
        fraction_of_time == get(opts, "fraction_of_time", FRACTION_OF_TIME)
        fraction_of_situations ==
            get(opts, "fraction_of_situations", FRACTION_OF_SITUATIONS)
    IN  process_transmitters(ts,
            [earth_dielectric_constant |-> earth_dielectric_constant,
             earth_conductivity |-> earth_dielectric_constant,
             radio_climate |-> radio_climate,
             fraction_of_time |-> fraction_of_time,
             fraction_of_situations |-> fraction_of_situations])

----------------------------------------------------------------------------
(* main.py: compute_look_angles from geodetic arguments, in fixed point.   *)
(* Angles are whole counts of 1/AngleUnit degree, so radians() and         *)
(* degrees() are the identity on counts; sines and cosines are whole       *)
(* counts of 1/One; lengths are whole kilometres.  math.sin, math.cos and  *)
(* math.atan2 are computed by shift-and-add rotations over the arc         *)
(* tangents of the powers of two.                                          *)

AngleUnit == 10000

One == 32768

\* One inside a rotation
RotOne == 268435456

\* atan(2^-k) for k = 0, 1, ... in angle counts
ArcTangents ==
    <<450000, 265651, 140362, 71250, 35763, 17899, 8952, 4476, 2238, 1119,
      560, 280, 140, 70, 35, 17, 9, 4, 2, 1>>

\* The product of the cos(atan(2^-k)), in 1/RotOne
RotGain == 163008219

\* constants.py, in kilometres and in 1/One
R_S == 42164

WGS84_A == 6378

WGS84_E2 == 219

\* x / 2^k, toward zero
half(x, k) == sgn(x) * (abs(x) \div (2 ^ k))

\* x / d, to the nearest whole number
rnd(x, d) == sgn(x) * ((abs(x) + d \div 2) \div d)

\* The product of a quantity and a count of 1/One
mul(a, b) == rnd(a * b, One)

\* Rotate (x, y) by the angle z, 0 <= z <= 90 degrees
RECURSIVE rotate(_, _, _, _)
rotate(x, y, z, k) ==
    IF k > Len(ArcTangents) THEN <<x, y>>
    ELSE IF z >= 0
         THEN rotate(x - half(y, k - 1), y + half(x, k - 1),
                     z - ArcTangents[k], k + 1)
    ELSE rotate(x + half(y, k - 1), y - half(x, k - 1),
                z + ArcTangents[k], k + 1)

\* math.sin(radians(a)) for -180 <= a <= 180 degrees
sin(a) ==
    LET m == IF abs(a) > 90 * AngleUnit THEN 180 * AngleUnit - abs(a)
             ELSE abs(a)
    IN  sgn(a) * rnd(rotate(RotGain, 0, m, 1)[2], RotOne \div One)

\* math.cos(radians(a)) for -180 <= a <= 180 degrees
cos(a) ==
    IF abs(a) > 90 * AngleUnit
    THEN -rnd(rotate(RotGain, 0, 180 * AngleUnit - abs(a), 1)[1],
              RotOne \div One)
    ELSE rnd(rotate(RotGain, 0, abs(a), 1)[1], RotOne \div One)

\* The angle by which (x, y), x >= 0, is rotated onto the x axis
RECURSIVE vector(_, _, _, _)
vector(x, y, z, k) ==
    IF k > Len(ArcTangents) \/ y = 0 THEN z
    ELSE IF y > 0
         THEN vector(x + half(y, k - 1), y - half(x, k - 1),
                     z + ArcTangents[k], k + 1)
    ELSE vector(x - half(y, k - 1), y + half(x, k - 1),
                z - ArcTangents[k], k + 1)

\* degrees(math.atan2(y, x)) of two lengths
atan2_degrees(y, x) ==
    IF x = 0 /\ y = 0 THEN 0
    ELSE LET longest == IF abs(x) > abs(y) THEN abs(x) ELSE abs(y)
             scale == IF longest > RotOne \div 2 THEN 1
                      ELSE (RotOne \div 2) \div longest
             t == vector(abs(x) * scale, abs(y) * scale, 0, 1)
             q == IF x < 0 THEN 180 * AngleUnit - t ELSE t
         IN  IF y < 0 THEN -q ELSE q

\* Lines 664-665 left out
positive_unwrapped(alp) == alp

\* Lines 664-665: azimuths are positive by convention
positive(alp) == IF alp < 0 THEN alp + 360 * AngleUnit ELSE alp

\* compute_look_angles(lon, lat, height, satellite_lon) for the arguments g
compute_look_angles_at(g) ==
    LET lam == g.lon
        phi == g.lat
        h == g.height
        lam_s == g.satellite_lon
        N == rnd(WGS84_A * One,
                 sqrt((One - mul(WGS84_E2, mul(sin(phi), sin(phi)))) * One))
        x_p == mul(mul(N + h, cos(lam)), cos(phi))
        y_p == mul(mul(N + h, sin(lam)), cos(phi))
        z_p == mul(N - mul(N, WGS84_E2) + h, sin(phi))
        x_s == mul(R_S, cos(lam_s))
        y_s == mul(R_S, sin(lam_s))
        z_s == 0
        x == x_s - x_p
        y == y_s - y_p
        z == z_s - z_p
        east == -mul(x, sin(lam)) + mul(y, cos(lam))
        north == -mul(mul(x, sin(phi)), cos(lam))
                 - mul(mul(y, sin(phi)), sin(lam)) + mul(z, cos(phi))
        up == mul(mul(x, cos(phi)), cos(lam))
              + mul(mul(y, cos(phi)), sin(lam)) + mul(z, sin(phi))
        alp == atan2_degrees(east, north)
        nu == atan2_degrees(up, sqrt(east * east + north * north))
    IN  [enu |-> <<east, north, up>>, angles |-> <<positive(alp), nu>>]

\* tests/test_main.py, test_compute_look_angles: the reference table, from
\* the satellite longitude to (azimuth, elevation), all in angle counts
expect ==
    [s \in {0, 100000, 200000, 300000, 400000, 500000, 600000, 700000,
            750000, 776865, 776914, -100000, -200000, -300000, -400000,
            -500000, -600000, -700000, -750000, -776865, -776914} |->
        CASE s = 0 -> <<1800000, 382164>>
          [] s = 100000 -> <<1659883, 372629>>
          [] s = 200000 -> <<1527459, 345215>>
          [] s = 300000 -> <<1407453, 302941>>
          [] s = 400000 -> <<1300943, 249504>>
          [] s = 500000 -> <<1206540, 188367>>
          [] s = 600000 -> <<1121789, 122358>>
          [] s = 700000 -> <<1044038, 53646>>
          [] s = 750000 -> <<1006996, 18804>>
          [] s = 776865 -> <<987453, 34>>
          [] s = 776914 -> <<987418, 0>>
          [] s = -100000 -> <<1940117, 372629>>
          [] s = -200000 -> <<2072541, 345215>>
          [] s = -300000 -> <<2192547, 302941>>
          [] s = -400000 -> <<2299057, 249504>>
          [] s = -500000 -> <<2393460, 188367>>
          [] s = -600000 -> <<2478211, 122358>>
          [] s = -700000 -> <<2555962, 53646>>
          [] s = -750000 -> <<2593004, 18804>>
          [] s = -776865 -> <<2612547, 34>>
          [] s = -776914 -> <<2612582, 0>>]

----------------------------------------------------------------------------
(* main.py: compute_satellite_los.  File names are strings; the external   *)
(* programs (gdal_translate, gdallocationinfo, gdaldem, gdalbuildvrt,      *)
(* gdal_polygonize.py), the raster-info helper and the geoid service       *)
(* either succeed or fail.                                                 *)

\* Every window is given the name of window 0
subtile_name_shared(k) == <<"0", ".", "t", "i", "f">>

\* The windows are numbered from 1
subtile_name_from_one(k) == Digits(k + 1) \o <<".", "t", "i", "f">>

\* '{!s}.tif'.format(i)
subtile_name(k) == Digits(k) \o <<".", "t", "i", "f">>

merged_vrt == <<"m", "e", "r", "g", "e", "d", ".", "v", "r", "t">>

merged_tif == <<"m", "e", "r", "g", "e", "d", ".", "t", "i", "f">>

\* The file f that the pipeline reads: in_path, or the .hgt beside the .zip
f_exists == IF is_zip THEN hgt_exists ELSE in_exists

\* Pixel sizes that the raster-info helper may report
RasterSizes == {<<4, 4>>, <<5, 4>>}

Least(S) == CHOOSE x \in S : \A y \in S : x <= y

Greatest(S) == CHOOSE x \in S : \A y \in S : x >= y

\* The mosaic of the first raster alone
mosaic_of_first(names, files) == files[names[1]].window

\* gdalbuildvrt: the mosaic shows the smallest window that holds the windows
\* of all the named rasters
mosaic(names, files) ==
    LET ws == {files[names[k]].window : k \in DOMAIN names}
        x0 == Least({w[1] : w \in ws})
        y0 == Least({w[2] : w \in ws})
        x1 == Greatest({w[1] + w[3] : w \in ws})
        y1 == Greatest({w[2] + w[4] : w \in ws})
    IN  <<x0, y0, x1 - x0, y1 - y0>>

\* The loop of line 737 ends one window early
more_windows_but_last(k, ws) == k + 2 < Len(ws)

\* enumerate(partition(...)): after window k (from 0) there is another one
more_windows(k, ws) == k + 1 < Len(ws)

----------------------------------------------------------------------------
(* Inputs *)

DegWindow(c) == (c - Win)..(c + Win)

LonDegs == UNION {DegWindow(c) : c \in {-180, -28, 0, 27, 180}}

LatDegs == UNION {DegWindow(c) : c \in {-90, -4, 0, 3, 90}}

\* 0, half and one-and-a-half arc-seconds, .36 (of -3.64), .5, .64, and just
\* below one degree
Fracs == {0, 1, 3, (36 * UnitsPerDegree) \div 100, UnitsPerDegree \div 2,
          (64 * UnitsPerDegree) \div 100, UnitsPerDegree - 1}

LonInputs == {Deg(d) + f : d \in LonDegs, f \in Fracs}

LatInputs == {Deg(d) + f : d \in LatDegs, f \in Fracs}

N03E027 == <<"N", "0", "3", "E", "0", "2", "7">>
S03E027 == <<"S", "0", "3", "E", "0", "2", "7">>
N03W027 == <<"N", "0", "3", "W", "0", "2", "7">>
S03W027 == <<"S", "0", "3", "W", "0", "2", "7">>
N04W027 == <<"N", "0", "4", "W", "0", "2", "7">>

\* The ids of the docstrings and of test_get_bounds
DocumentedIds == {N03E027, S03E027, N03W027, S03W027, N04W027}

RECURSIVE Strings(_, _)
\* The strings over alphabet A of length at most k
Strings(A, k) ==
    IF k = 0 THEN {<<>>}
    ELSE LET shorter == Strings(A, k - 1)
         IN  shorter \cup {<<c>> \o s : c \in A, s \in {t \in shorter : Len(t) = k - 1}}

LatFieldChars == {"0", "9", "+", "-", " "}

LonFieldChars == {"0", "1", "8", "+", "-", " "}

LatFields == {<<a, b>> : a \in LatFieldChars, b \in LatFieldChars}

LonFields(k) == Strings(LonFieldChars, k)

\* Strings with a longitude field of at most k characters
IdInputs(k) ==
    {(<<a>> \o la) \o (<<b>> \o lo) :
        a \in {"N", "S", "n"}, la \in LatFields,
        b \in {"E", "W", "e"}, lo \in LonFields(k)}
    \cup {<<>>, <<"N">>, <<"N", "0", "3">>}
    \cup DocumentedIds

S36E174 == <<"S", "3", "6", "E", "1", "7", "4">>
S36E175 == <<"S", "3", "6", "E", "1", "7", "5">>
S37E174 == <<"S", "3", "7", "E", "1", "7", "4">>
n36E174 == <<"n", "3", "6", "E", "1", "7", "4">>

\* Candidate ids: three neighbouring New Zealand tiles and a malformed id
CandidateIds == {S36E174, S36E175, S37E174, n36E174}

\* Inside S36E174; on and just beyond the padded edge it shares with S36E175
CoverXs == {Deg(174) + UnitsPerDegree \div 2, Deg(175) + 3, Deg(175) + 4}

\* Inside the S36 row; on and just beyond the padded edge shared with S37
CoverYs == {Deg(-36) + UnitsPerDegree \div 2, Deg(-36) - 3, Deg(-36) - 4}

\* Points, a box over all three tiles and a box far from them
GeometryInputs ==
    {<<x, y, x, y>> : x \in CoverXs, y \in CoverYs}
    \cup {<<Deg(174), Deg(-37), Deg(176), Deg(-35)>>,
          <<Deg(10), Deg(10), Deg(11), Deg(11)>>}

\* Corners of bounding boxes: whole and half degrees around the sampled
\* degrees, up to and beyond the ends of the valid ranges
BoxLons ==
    {Deg(d) + f : d \in UNION {DegWindow(c) : c \in {-180, -28, 0, 27, 180}},
                  f \in {0, UnitsPerDegree \div 2}}

BoxLats ==
    {Deg(d) + f : d \in UNION {DegWindow(c) : c \in {-90, -4, 0, 3, 90}},
                  f \in {0, UnitsPerDegree \div 2}}

\* Widths and heights of at most k degrees, in steps of half a degree
BoxSizes(k) == {m * (UnitsPerDegree \div 2) : m \in 0..(2 * k)}

\* Boxes [min_lon, min_lat, max_lon, max_lat] with min <= max on each axis
\* that span at most k degrees
BoxInputs(k) ==
    {<<x, y, x + w, y + h>> : x \in BoxLons, y \in BoxLats,
                              w \in BoxSizes(k), h \in BoxSizes(k)}

\* The point of test_get_geoid_height, (-3.01, 16.78), and (175.5, -36.5)
GeoidLons == {-((301 * UnitsPerDegree) \div 100),
              Deg(175) + UnitsPerDegree \div 2}

GeoidLats == {(1678 * UnitsPerDegree) \div 100,
              Deg(-37) + UnitsPerDegree \div 2}

\* Status codes of the geoid service: OK and service unavailable
StatusCodes == {codes_ok, 503}

\* What the service's page shows in blue after "EGM96 =": a height, a
\* negative height, a lone sign, an error text
Texts == {<<"2", "8", ".", "7">>, <<"-", "5">>, <<"-">>, <<"e", "r", "r">>}

\* The responses of the geoid service
Responses == [status_code : StatusCodes, text : Texts]

\* A request that requests.get gave up on: there is no response
NoResponse == [status_code |-> 0, text |-> <<>>]

\* Components of the local vector: nothing, a rounding residue, a distance
ComponentInputs == {-Negligible, -1, 0, 1, Negligible}

\* Arguments of compute_look_angles: the point of the reference table, its
\* mirror image south of the equator and a point 10 degrees east, at heights
\* of whole kilometres, with the satellite longitudes of the table
GeodeticInputs ==
    [lon : {0, 10 * AngleUnit}, lat : {45 * AngleUnit, -45 * AngleUnit},
     height : 0..MaxHeight, satellite_lon : DOMAIN expect]

\* Raster dimensions: the small ones and that of test_partition
DimInputs == 1..MaxDim \cup {TestDim}

\* The lists over S of length at most k
Lists(S, k) == UNION {[1..m -> S] : m \in 0..k}

\* Transmitters at the two points of test_compute_intersecting_tiles,
\* (174.3, -35.7) and (168.6, -45.2), at (175.0, -37.5) on a cell edge and at
\* (27.5, 3.64), far from New Zealand
TransmitterInputs ==
    {[longitude |-> Deg(174) + (3 * UnitsPerDegree) \div 10,
      latitude |-> Deg(-36) + (3 * UnitsPerDegree) \div 10],
     [longitude |-> Deg(168) + (6 * UnitsPerDegree) \div 10,
      latitude |-> Deg(-46) + (8 * UnitsPerDegree) \div 10],
     [longitude |-> Deg(175), latitude |-> Deg(-38) + UnitsPerDegree \div 2],
     [longitude |-> Deg(27) + UnitsPerDegree \div 2,
      latitude |-> Deg(3) + (64 * UnitsPerDegree) \div 100]}

\* Buffers of 0.5 (the default), 0.1 and 1 degree
BufferInputs == {UnitsPerDegree \div 2, UnitsPerDegree \div 10, UnitsPerDegree}

\* What a caller passes as tile_ids: nothing, one or two New Zealand tiles,
\* the default, a tile elsewhere
CallerTileIds ==
    {<<>>, <<S36E174>>, <<S36E175, S36E174>>, SRTM_NZ_TILE_IDS, <<N03E027>>}

N00E000 == <<"N", "0", "0", "E", "0", "0", "0">>

\* Tile ids given to download_topography: two New Zealand tiles and the
\* tile of test_download_topography that is not one
DownloadIds == {S36E174, S37E174, N00E000}

\* A row of a transmitters file
GoodRow ==
    [key \in Range(REQUIRED_TRANSMITTER_FIELDS) |->
        CASE key = "network_name" -> <<"M", " ", "y">>
          [] key = "site_name" -> <<"1", " ">>
          [] key = "latitude" -> <<"-", "4", "5", ".", "5">>
          [] key = "longitude" -> <<"1", "7", "0">>
          [] key = "antenna_height" -> <<" ", "2", "0", " ">>
          [] key = "polarization" -> <<"0">>
          [] key = "frequency" -> <<"5", "7", "2", "5", ".">>
          [] key = "power_eirp" -> <<".", "5">>]

\* Strings that are no floats, and one that is
CellInputs == {<<>>, <<"x">>, <<"1", "-">>, <<".">>, <<"1", ".", "2", ".">>,
               <<"+", "7">>}

\* The row, the row with a bearing, and for each required field the row
\* without it and the row with each of the cell inputs in it
RowInputs ==
    {GoodRow, ("bearing" :> <<"9", "0">>) @@ GoodRow}
    \cup {[key \in DOMAIN GoodRow \ {gone} |-> GoodRow[key]] :
            gone \in DOMAIN GoodRow}
    \cup {[GoodRow EXCEPT ![key] = cell] :
            key \in DOMAIN GoodRow, cell \in CellInputs}

\* Transmitters as read_transmitters returns them: two sites of one network
SplatTransmitters ==
    {[name |-> <<"M", "y", "_", "1">>, frequency |-> 5725000,
      polarization |-> 0, power_eirp |-> 4000],
     [name |-> <<"M", "y", "_", "2">>, frequency |-> 2400000,
      polarization |-> 1, power_eirp |-> 500]}

\* For each model parameter, its default and another value
OptionValues ==
    [earth_dielectric_constant |-> <<EARTH_DIELECTRIC_CONSTANT, 4000>>,
     earth_conductivity |-> <<EARTH_CONDUCTIVITY, 1>>,
     radio_climate |-> <<RADIO_CLIMATE, 1>>,
     fraction_of_time |-> <<FRACTION_OF_TIME, 900>>,
     fraction_of_situations |-> <<FRACTION_OF_SITUATIONS, 100>>]

\* The parameters given by a caller: for each of the five, nothing, the
\* default or the other value
OptionInputs ==
    {[key \in {k \in DOMAIN OptionValues : pick[k] > 0} |->
        OptionValues[key][pick[key]]] :
     pick \in [DOMAIN OptionValues -> 0..2]}

Reverse(list) == [k \in DOMAIN list |-> list[Len(list) + 1 - k]]

\* Iteration orders of set(SRTM_NZ_TILE_IDS).  Every id of the constant is
\* well formed, so no order ends the loop early; two opposite orders stand
\* for all of them.
NzOrders == {SRTM_NZ_TILE_IDS, Reverse(SRTM_NZ_TILE_IDS)}

\* Candidate lists that name one id and then another one twice
RepeatingLists == {<<a, b, b>> : a \in CandidateIds, b \in CandidateIds}

----------------------------------------------------------------------------
(* State machines: one call per behaviour, arguments chosen in Init *)

TileIdle ==
    /\ lon = 0 /\ lat = 0
    /\ tile_id = <<>> /\ srtm_name = <<>> /\ srtm_names = <<>>
    /\ high_definition = FALSE /\ bounds = <<>>

PartIdle == width = 0 /\ height = 0 /\ n = 0 /\ windows = <<>>

CoverIdle ==
    /\ geometries = <<>> /\ tile_ids = <<>> /\ result = <<>>
    /\ transmitters = <<>> /\ transmitter_buffer = 0

LosIdle ==
    /\ is_zip = FALSE /\ make_shp = FALSE
    /\ in_exists = FALSE /\ hgt_exists = FALSE /\ hgt_extracted = FALSE
    /\ tmp_exists = FALSE /\ tmp_files = <<>>
    /\ out_exists = FALSE /\ out_raster = <<>>
    /\ i = 0 /\ subtile_names = <<>>

GeoidIdle == num_tries = 0 /\ responses = <<>> /\ geoid_height = <<>>

LookIdle == enu = <<>> /\ look = <<>> /\ geodetic = <<>>

TaskIdle == task_pc = <<>> /\ accesses = {}

DownloadIdle == path_exists = FALSE /\ requested = <<>> /\ written = {}

SplatIdle == options = <<>> /\ splat_files = <<>>

\* --- get_tile_id, get_srtm_tile_name and get_bounds of the returned id ---

InitTile ==
    /\ pc = "lonlat"
    /\ raised = ""
    /\ lon \in LonInputs /\ lat \in LatInputs
    /\ tile_id = <<>> /\ srtm_name = <<>> /\ srtm_names = <<>>
    /\ high_definition = FALSE /\ bounds = <<>>
    /\ PartIdle /\ CoverIdle /\ LosIdle
    /\ GeoidIdle /\ LookIdle /\ TaskIdle
    /\ DownloadIdle /\ SplatIdle

GetTileId ==
    /\ pc = "lonlat"
    /\ LET r == get_tile_id(lon, lat)
       IN  /\ raised' = r.raised
           /\ tile_id' = r.val
           /\ pc' = IF r.raised = "" THEN "tile_id" ELSE "tile_id_raised"
    /\ UNCHANGED <<lon, lat, srtm_name, srtm_names, high_definition, bounds>>
    /\ UNCHANGED <<partVars, coverVars, losVars>>
    /\ UNCHANGED <<geoidVars, lookVars, taskVars>>
    /\ UNCHANGED <<downloadVars, splatVars>>

GetSrtmTileName ==
    /\ pc = "lonlat"
    /\ LET r == get_srtm_tile_name(lon, lat)
       IN  /\ raised' = r.raised
           /\ srtm_name' = r.val
           /\ pc' = IF r.raised = "" THEN "srtm_name" ELSE "srtm_name_raised"
    /\ UNCHANGED <<lon, lat, tile_id, srtm_names, high_definition, bounds>>
    /\ UNCHANGED <<partVars, coverVars, losVars>>
    /\ UNCHANGED <<geoidVars, lookVars, taskVars>>
    /\ UNCHANGED <<downloadVars, splatVars>>

GetBounds ==
    /\ pc \in {"tile_id", "id"}
    /\ \E hd \in BOOLEAN :
        LET r == get_bounds(tile_id, hd)
        IN  /\ high_definition' = hd
            /\ raised' = r.raised
            /\ bounds' = r.val
            /\ pc' = IF r.raised = "" THEN "bounds" ELSE "bounds_raised"
    /\ UNCHANGED <<lon, lat, tile_id, srtm_name, srtm_names>>
    /\ UNCHANGED <<partVars, coverVars, losVars>>
    /\ UNCHANGED <<geoidVars, lookVars, taskVars>>
    /\ UNCHANGED <<downloadVars, splatVars>>

NextTile == GetTileId \/ GetSrtmTileName \/ GetBounds

SpecTile == InitTile /\ [][NextTile]_vars

\* --- check_tile_id and get_bounds of an arbitrary string ---

InitId ==
    /\ pc = "id"
    /\ raised = ""
    /\ lon = 0 /\ lat = 0
    /\ tile_id \in IdInputs(MaxLonField)
    /\ srtm_name = <<>> /\ srtm_names = <<>>
    /\ high_definition = FALSE /\ bounds = <<>>
    /\ PartIdle /\ CoverIdle /\ LosIdle
    /\ GeoidIdle /\ LookIdle /\ TaskIdle
    /\ DownloadIdle /\ SplatIdle

CheckTileId ==
    /\ pc = "id"
    /\ raised' = IF check_tile_id(tile_id) THEN "" ELSE "ValueError"
    /\ pc' = IF check_tile_id(tile_id) THEN "checked" ELSE "check_raised"
    /\ UNCHANGED <<tileVars, partVars, coverVars, losVars>>
    /\ UNCHANGED <<geoidVars, lookVars, taskVars>>
    /\ UNCHANGED <<downloadVars, splatVars>>

NextId == CheckTileId \/ GetBounds

SpecId == InitId /\ [][NextId]_vars

\* --- get_srtm_tile_names ---

InitNames ==
    /\ pc = "box"
    /\ raised = ""
    /\ lon = 0 /\ lat = 0
    /\ tile_id = <<>> /\ srtm_name = <<>> /\ srtm_names = <<>>
    /\ high_definition = FALSE /\ bounds \in BoxInputs(MaxBoxSpan)
    /\ PartIdle /\ CoverIdle /\ LosIdle
    /\ GeoidIdle /\ LookIdle /\ TaskIdle
    /\ DownloadIdle /\ SplatIdle

GetSrtmTileNames ==
    /\ pc = "box"
    /\ LET r == get_srtm_tile_names(bounds)
       IN  /\ raised' = r.raised
           /\ srtm_names' = r.val
           /\ pc' = IF r.raised = "" THEN "names" ELSE "names_raised"
    /\ UNCHANGED <<lon, lat, tile_id, srtm_name, high_definition, bounds>>
    /\ UNCHANGED <<partVars, coverVars, losVars>>
    /\ UNCHANGED <<geoidVars, lookVars, taskVars>>
    /\ UNCHANGED <<downloadVars, splatVars>>

NextNames == GetSrtmTileNames

SpecNames == InitNames /\ [][NextNames]_vars

\* --- partition ---

InitPartition ==
    /\ pc = "dims"
    /\ raised = ""
    /\ width \in DimInputs /\ height \in DimInputs /\ n \in 1..MaxN
    /\ windows = <<>>
    /\ TileIdle /\ CoverIdle /\ LosIdle
    /\ GeoidIdle /\ LookIdle /\ TaskIdle
    /\ DownloadIdle /\ SplatIdle

Partition ==
    /\ pc = "dims"
    /\ windows' = partition(width, height, n)
    /\ pc' = "partitioned"
    /\ UNCHANGED <<raised, width, height, n>>
    /\ UNCHANGED <<tileVars, coverVars, losVars>>
    /\ UNCHANGED <<geoidVars, lookVars, taskVars>>
    /\ UNCHANGED <<downloadVars, splatVars>>

NextPartition == Partition

SpecPartition == InitPartition /\ [][NextPartition]_vars

\* --- compute_intersecting_tiles ---

InitCover ==
    /\ pc = "cover"
    /\ raised = ""
    /\ geometries \in Lists(GeometryInputs, MaxGeoms)
    /\ tile_ids \in Lists(CandidateIds, MaxTileIds) \cup RepeatingLists
    /\ result = <<>>
    /\ transmitters = <<>> /\ transmitter_buffer = 0
    /\ TileIdle /\ PartIdle /\ LosIdle
    /\ GeoidIdle /\ LookIdle /\ TaskIdle
    /\ DownloadIdle /\ SplatIdle

ComputeIntersectingTiles ==
    /\ pc = "cover"
    /\ \E order \in Orders(Range(tile_ids)) :
        LET r == compute_intersecting_tiles(geometries, order)
        IN  /\ raised' = r.raised
            /\ result' = r.val
            /\ pc' = IF r.raised = "" THEN "selected" ELSE "cover_raised"
    /\ UNCHANGED <<geometries, tile_ids, transmitters, transmitter_buffer>>
    /\ UNCHANGED <<tileVars, partVars, losVars>>
    /\ UNCHANGED <<geoidVars, lookVars, taskVars>>
    /\ UNCHANGED <<downloadVars, splatVars>>

NextCover == ComputeIntersectingTiles

SpecCover == InitCover /\ [][NextCover]_vars

\* --- get_covering_tiles_ids ---

InitCovering ==
    /\ pc = "transmitters"
    /\ raised = ""
    /\ transmitters \in Lists(TransmitterInputs, MaxTransmitters)
    /\ transmitter_buffer \in BufferInputs
    /\ tile_ids \in CallerTileIds
    /\ geometries = <<>> /\ result = <<>>
    /\ TileIdle /\ PartIdle /\ LosIdle
    /\ GeoidIdle /\ LookIdle /\ TaskIdle
    /\ DownloadIdle /\ SplatIdle

GetCoveringTilesIds ==
    /\ pc = "transmitters"
    /\ \E order \in NzOrders :
        LET r == get_covering_tiles_ids(transmitters, transmitter_buffer,
                                        tile_ids, order)
        IN  /\ raised' = r.raised
            /\ result' = r.val
            /\ pc' = IF r.raised = "" THEN "covered" ELSE "covering_raised"
    /\ UNCHANGED <<geometries, tile_ids, transmitters, transmitter_buffer>>
    /\ UNCHANGED <<tileVars, partVars, losVars>>
    /\ UNCHANGED <<geoidVars, lookVars, taskVars>>
    /\ UNCHANGED <<downloadVars, splatVars>>

NextCovering == GetCoveringTilesIds

SpecCovering == InitCovering /\ [][NextCovering]_vars

\* --- get_geoid_height: one action per pass through the loop ---

InitGeoid ==
    /\ pc = "geoid"
    /\ raised = ""
    /\ lon \in GeoidLons /\ lat \in GeoidLats
    /\ tile_id = <<>> /\ srtm_name = <<>> /\ srtm_names = <<>>
    /\ high_definition = FALSE /\ bounds = <<>>
    /\ num_tries \in 0..MaxNumTries
    /\ responses = <<>>
    /\ geoid_height = <<>>
    /\ PartIdle /\ CoverIdle /\ LosIdle /\ LookIdle /\ TaskIdle
    /\ DownloadIdle /\ SplatIdle

\* Lines 685-692: one request and what the function does with the response:
\* requests.get raises, the status is not OK, the text does not match the
\* pattern or is no number, or it holds a height
GeoidRequest ==
    /\ pc = "geoid"
    /\ in_range(Len(responses), num_tries)
    /\ \/ /\ responses' = Append(responses, NoResponse)
          /\ raised' = "ConnectionError"
          /\ pc' = "geoid_raised"
          /\ UNCHANGED geoid_height
       \/ \E r \in Responses :
             /\ responses' = Append(responses, r)
             /\ IF r.status_code # codes_ok
                  THEN /\ pc' = "geoid"
                       /\ UNCHANGED <<raised, geoid_height>>
                  ELSE IF ~parse(r.text).ok
                  THEN /\ raised' = "ValueError"
                       /\ pc' = "geoid_raised"
                       /\ UNCHANGED geoid_height
                  ELSE /\ geoid_height' = <<parse(r.text).val>>
                       /\ pc' = "geoid_returned"
                       /\ UNCHANGED raised
    /\ UNCHANGED num_tries
    /\ UNCHANGED <<tileVars, partVars, coverVars, losVars, lookVars,
                   taskVars>>
    /\ UNCHANGED <<downloadVars, splatVars>>

\* Line 694: the loop has run num_tries times without a usable response
GeoidExhausted ==
    /\ pc = "geoid"
    /\ ~in_range(Len(responses), num_tries)
    /\ raised' = "ValueError"
    /\ pc' = "geoid_raised"
    /\ UNCHANGED <<num_tries, responses, geoid_height>>
    /\ UNCHANGED <<tileVars, partVars, coverVars, losVars, lookVars,
                   taskVars>>
    /\ UNCHANGED <<downloadVars, splatVars>>

NextGeoid == GeoidRequest \/ GeoidExhausted

SpecGeoid == InitGeoid /\ [][NextGeoid]_vars

\* --- compute_look_angles ---

InitLook ==
    /\ pc = "vector"
    /\ raised = ""
    /\ enu \in ComponentInputs \X ComponentInputs \X ComponentInputs
    /\ look = <<>>
    /\ geodetic = <<>>
    /\ TileIdle /\ PartIdle /\ CoverIdle /\ LosIdle /\ GeoidIdle /\ TaskIdle
    /\ DownloadIdle /\ SplatIdle

ComputeLookAngles ==
    /\ pc = "vector"
    /\ look' = compute_look_angles(enu)
    /\ pc' = "looked"
    /\ UNCHANGED <<raised, enu, geodetic>>
    /\ UNCHANGED <<tileVars, partVars, coverVars, losVars, geoidVars,
                   taskVars>>
    /\ UNCHANGED <<downloadVars, splatVars>>

NextLook == ComputeLookAngles

SpecLook == InitLook /\ [][NextLook]_vars

\* --- compute_look_angles from geodetic arguments ---

InitLookAt ==
    /\ pc = "geodetic"
    /\ raised = ""
    /\ geodetic \in GeodeticInputs
    /\ enu = <<>>
    /\ look = <<>>
    /\ TileIdle /\ PartIdle /\ CoverIdle /\ LosIdle /\ GeoidIdle /\ TaskIdle
    /\ DownloadIdle /\ SplatIdle

ComputeLookAnglesAt ==
    /\ pc = "geodetic"
    /\ enu' = compute_look_angles_at(geodetic).enu
    /\ look' = compute_look_angles_at(geodetic).angles
    /\ pc' = "looked_at"
    /\ UNCHANGED <<raised, geodetic>>
    /\ UNCHANGED <<tileVars, partVars, coverVars, losVars, geoidVars,
                   taskVars>>
    /\ UNCHANGED <<downloadVars, splatVars>>

NextLookAt == ComputeLookAnglesAt

SpecLookAt == InitLookAt /\ [][NextLookAt]_vars

\* --- compute_satellite_los ---

Init ==
    /\ pc = "los"
    /\ raised = ""
    /\ is_zip \in BOOLEAN /\ make_shp \in BOOLEAN
    /\ in_exists = TRUE
    /\ hgt_exists \in (IF is_zip THEN BOOLEAN ELSE {FALSE})
    /\ hgt_extracted = FALSE
    /\ tmp_exists = FALSE /\ tmp_files = <<>>
    /\ out_exists = FALSE /\ out_raster = <<>>
    /\ i = 0 /\ subtile_names = <<>>
    /\ width = 0 /\ height = 0 /\ n \in 1..MaxLosN /\ windows = <<>>
    /\ TileIdle /\ CoverIdle
    /\ GeoidIdle /\ LookIdle /\ TaskIdle
    /\ DownloadIdle /\ SplatIdle

\* The failing step is tried again
Fails_and_retries(e) == raised' = e /\ pc' = pc

\* An exception leaves the function at once: nothing else changes
Fails(e) == raised' = e /\ pc' = "los_raised"

\* Lines 713-726: resolve the input, unpacking a .zip beside itself.  An
\* SRTM archive holds the .hgt file named after the tile id in the file name
\* of in_path (line 714); a file of that name may be there already, and is
\* replaced by the archive's.
LosLocate ==
    /\ pc = "los"
    /\ \/ /\ ~is_zip
          /\ pc' = "los_mkdtemp"
          /\ UNCHANGED <<raised, hgt_exists, hgt_extracted>>
       \/ /\ is_zip
          /\ hgt_extracted' = TRUE
          /\ hgt_exists' = TRUE
          /\ pc' = "los_mkdtemp"
          /\ UNCHANGED raised
       \/ /\ is_zip
          /\ Fails("ReadError")
          /\ UNCHANGED <<hgt_exists, hgt_extracted>>
    /\ UNCHANGED <<is_zip, make_shp, in_exists, tmp_exists, tmp_files,
                   out_exists, out_raster, i, subtile_names>>
    /\ UNCHANGED <<tileVars, partVars, coverVars>>
    /\ UNCHANGED <<geoidVars, lookVars, taskVars>>
    /\ UNCHANGED <<downloadVars, splatVars>>

\* Line 729
LosMkdtemp ==
    /\ pc = "los_mkdtemp"
    /\ tmp_exists' = TRUE
    /\ pc' = "los_info"
    /\ UNCHANGED <<raised, is_zip, make_shp, in_exists, hgt_exists,
                   hgt_extracted, tmp_files,
                   out_exists, out_raster, i, subtile_names>>
    /\ UNCHANGED <<tileVars, partVars, coverVars>>
    /\ UNCHANGED <<geoidVars, lookVars, taskVars>>
    /\ UNCHANGED <<downloadVars, splatVars>>

\* Lines 732-735: read the raster's size and partition it
LosInfo ==
    /\ pc = "los_info"
    /\ \/ /\ f_exists
          /\ \E size \in RasterSizes :
                /\ width' = size[1] /\ height' = size[2]
                /\ windows' = partition(size[1], size[2], n)
          /\ i' = 0
          /\ pc' = "los_translate"
          /\ UNCHANGED <<raised, n>>
       \/ /\ Fails("CalledProcessError")
          /\ UNCHANGED <<partVars, i>>
    /\ UNCHANGED <<is_zip, make_shp, in_exists, hgt_exists, hgt_extracted,
                   tmp_exists,
                   tmp_files, out_exists, out_raster, subtile_names>>
    /\ UNCHANGED <<tileVars, coverVars>>
    /\ UNCHANGED <<geoidVars, lookVars, taskVars>>
    /\ UNCHANGED <<downloadVars, splatVars>>

\* Lines 737-743: extract window i into <tmp>/i.tif
LosTranslate ==
    /\ pc = "los_translate"
    /\ subtile_names' = Append(subtile_names, subtile_name(i))
    /\ \/ /\ tmp_files' =
                (subtile_name(i) :> [state |-> "extracted",
                                     window |-> windows[i + 1]]) @@ tmp_files
          /\ pc' = "los_elevation"
          /\ UNCHANGED raised
       \/ /\ Fails("CalledProcessError")
          /\ UNCHANGED tmp_files
    /\ UNCHANGED <<is_zip, make_shp, in_exists, hgt_exists, hgt_extracted,
                   tmp_exists,
                   out_exists, out_raster, i>>
    /\ UNCHANGED <<tileVars, partVars, coverVars>>
    /\ UNCHANGED <<geoidVars, lookVars, taskVars>>
    /\ UNCHANGED <<downloadVars, splatVars>>

\* Lines 746-751: centre of the subtile and its elevation
LosElevation ==
    /\ pc = "los_elevation"
    /\ \/ pc' = "los_geoid" /\ UNCHANGED raised
       \/ Fails("CalledProcessError")
    /\ UNCHANGED <<tileVars, partVars, coverVars, losVars>>
    /\ UNCHANGED <<geoidVars, lookVars, taskVars>>
    /\ UNCHANGED <<downloadVars, splatVars>>

\* Line 752: get_geoid_height
LosGeoid ==
    /\ pc = "los_geoid"
    /\ \/ pc' = "los_shade" /\ UNCHANGED raised
       \/ Fails("ValueError")
    /\ UNCHANGED <<tileVars, partVars, coverVars, losVars>>
    /\ UNCHANGED <<geoidVars, lookVars, taskVars>>
    /\ UNCHANGED <<downloadVars, splatVars>>

\* Lines 755-759: look angles, then gdaldem hillshade in place; loop
LosShade ==
    /\ pc = "los_shade"
    /\ \/ /\ tmp_files' =
                [tmp_files EXCEPT ![subtile_name(i)].state = "shaded"]
          /\ IF more_windows(i, windows)
             THEN i' = i + 1 /\ pc' = "los_translate"
             ELSE i' = i /\ pc' = "los_buildvrt"
          /\ UNCHANGED raised
       \/ /\ Fails("CalledProcessError")
          /\ UNCHANGED <<tmp_files, i>>
    /\ UNCHANGED <<is_zip, make_shp, in_exists, hgt_exists, hgt_extracted,
                   tmp_exists,
                   out_exists, out_raster, subtile_names>>
    /\ UNCHANGED <<tileVars, partVars, coverVars>>
    /\ UNCHANGED <<geoidVars, lookVars, taskVars>>
    /\ UNCHANGED <<downloadVars, splatVars>>

\* Lines 763-765: gdalbuildvrt merged.vrt <subtile names>
LosBuildVrt ==
    /\ pc = "los_buildvrt"
    /\ \/ /\ tmp_files' =
                (merged_vrt :> [state |-> "built",
                                window |-> mosaic(subtile_names, tmp_files)])
                @@ tmp_files
          /\ pc' = "los_materialise"
          /\ UNCHANGED raised
       \/ /\ Fails("CalledProcessError")
          /\ UNCHANGED tmp_files
    /\ UNCHANGED <<is_zip, make_shp, in_exists, hgt_exists, hgt_extracted,
                   tmp_exists,
                   out_exists, out_raster, i, subtile_names>>
    /\ UNCHANGED <<tileVars, partVars, coverVars>>
    /\ UNCHANGED <<geoidVars, lookVars, taskVars>>
    /\ UNCHANGED <<downloadVars, splatVars>>

\* Lines 767-769: gdal_translate merged.vrt merged.tif
LosMaterialise ==
    /\ pc = "los_materialise"
    /\ \/ /\ tmp_files' =
                (merged_tif :> [state |-> "built",
                                window |-> tmp_files[merged_vrt].window])
                @@ tmp_files
          /\ pc' = "los_move"
          /\ UNCHANGED raised
       \/ /\ Fails("CalledProcessError")
          /\ UNCHANGED tmp_files
    /\ UNCHANGED <<is_zip, make_shp, in_exists, hgt_exists, hgt_extracted,
                   tmp_exists,
                   out_exists, out_raster, i, subtile_names>>
    /\ UNCHANGED <<tileVars, partVars, coverVars>>
    /\ UNCHANGED <<geoidVars, lookVars, taskVars>>
    /\ UNCHANGED <<downloadVars, splatVars>>

\* Line 772: Path.replace, which fails across file systems
LosMove ==
    /\ pc = "los_move"
    /\ \/ /\ tmp_files' = [name \in DOMAIN tmp_files \ {merged_tif} |->
                              tmp_files[name]]
          /\ out_exists' = TRUE
          /\ out_raster' = tmp_files[merged_tif].window
          /\ pc' = "los_cleanup"
          /\ UNCHANGED raised
       \/ /\ Fails("OSError")
          /\ UNCHANGED <<tmp_files, out_exists, out_raster>>
    /\ UNCHANGED <<is_zip, make_shp, in_exists, hgt_exists, hgt_extracted,
                   tmp_exists,
                   i, subtile_names>>
    /\ UNCHANGED <<tileVars, partVars, coverVars>>
    /\ UNCHANGED <<geoidVars, lookVars, taskVars>>
    /\ UNCHANGED <<downloadVars, splatVars>>

unlinks_always(zip) == TRUE

\* Line 776: f, the file the windows were cut from, is removed when the
\* input was a .zip
unlinks(zip) == zip

\* Lines 774-777: the clean-up of the path that got this far.  f is the
\* extracted .hgt file for a .zip input and in_path itself otherwise
\* (lines 720-727)
LosCleanUp ==
    /\ pc = "los_cleanup"
    /\ tmp_exists' = FALSE
    /\ tmp_files' = <<>>
    /\ IF unlinks(is_zip)
          THEN IF is_zip
                 THEN hgt_exists' = FALSE /\ UNCHANGED in_exists
                 ELSE in_exists' = FALSE /\ UNCHANGED hgt_exists
          ELSE UNCHANGED <<in_exists, hgt_exists>>
    /\ pc' = IF make_shp THEN "los_polygonize" ELSE "los_done"
    /\ UNCHANGED <<raised, is_zip, make_shp, hgt_extracted,
                   out_exists, out_raster, i, subtile_names>>
    /\ UNCHANGED <<tileVars, partVars, coverVars>>
    /\ UNCHANGED <<geoidVars, lookVars, taskVars>>
    /\ UNCHANGED <<downloadVars, splatVars>>

\* Lines 779-785: gdal_polygonize.py
LosPolygonize ==
    /\ pc = "los_polygonize"
    /\ \/ pc' = "los_done" /\ UNCHANGED raised
       \/ Fails("CalledProcessError")
    /\ UNCHANGED <<tileVars, partVars, coverVars, losVars>>
    /\ UNCHANGED <<geoidVars, lookVars, taskVars>>
    /\ UNCHANGED <<downloadVars, splatVars>>

Next ==
    \/ LosLocate \/ LosMkdtemp \/ LosInfo \/ LosTranslate \/ LosElevation
    \/ LosGeoid \/ LosShade \/ LosBuildVrt \/ LosMaterialise \/ LosMove
    \/ LosCleanUp \/ LosPolygonize

Spec == Init /\ [][Next]_vars

\* --- the loop body of compute_satellite_los as concurrent tasks ---
\* The loop of line 735 names the windows and starts one task per window;
\* a task runs lines 739-759 for its window; the merge waits for all tasks.

InitTasks ==
    /\ pc = "tasks_fork"
    /\ raised = ""
    /\ is_zip = FALSE /\ make_shp = FALSE
    /\ in_exists = TRUE /\ hgt_exists = FALSE /\ hgt_extracted = FALSE
    /\ tmp_exists = TRUE /\ tmp_files = <<>>
    /\ out_exists = FALSE /\ out_raster = <<>>
    /\ i = 0 /\ subtile_names = <<>>
    /\ width = 0 /\ height = 0 /\ n \in 1..MaxLosN /\ windows = <<>>
    /\ task_pc = <<>> /\ accesses = {}
    /\ TileIdle /\ CoverIdle /\ GeoidIdle /\ LookIdle
    /\ DownloadIdle /\ SplatIdle

\* The file f, which every task reads
in_file == <<"f">>

TaskFails(e) == raised' = e /\ pc' = "tasks_raised"

\* Lines 732-738: read the raster's size, partition it, name the windows
TasksFork ==
    /\ pc = "tasks_fork"
    /\ \E size \in RasterSizes :
          /\ width' = size[1] /\ height' = size[2]
          /\ windows' = partition(size[1], size[2], n)
          /\ subtile_names' = [k \in 1..(n * n) |-> subtile_name(k - 1)]
          /\ task_pc' = [k \in 0..(n * n - 1) |-> "translate"]
    /\ pc' = "tasks_running"
    /\ UNCHANGED <<raised, n, accesses>>
    /\ UNCHANGED <<is_zip, make_shp, in_exists, hgt_exists, hgt_extracted,
                   tmp_exists,
                   tmp_files, out_exists, out_raster, i>>
    /\ UNCHANGED <<tileVars, coverVars, geoidVars, lookVars>>
    /\ UNCHANGED <<downloadVars, splatVars>>

\* Lines 739-743 for window k: gdal_translate reads f and writes <tmp>/k.tif
TaskTranslate(k) ==
    /\ pc = "tasks_running" /\ task_pc[k] = "translate"
    /\ \/ /\ tmp_files' =
                (subtile_name(k) :> [state |-> "extracted",
                                     window |-> windows[k + 1]]) @@ tmp_files
          /\ accesses' = accesses \cup
                {[task |-> k, file |-> in_file, kind |-> "read"],
                 [task |-> k, file |-> subtile_name(k), kind |-> "write"]}
          /\ task_pc' = [task_pc EXCEPT ![k] = "measure"]
          /\ UNCHANGED <<pc, raised>>
       \/ /\ TaskFails("CalledProcessError")
          /\ UNCHANGED <<tmp_files, accesses, task_pc>>
    /\ UNCHANGED <<is_zip, make_shp, in_exists, hgt_exists, hgt_extracted,
                   tmp_exists,
                   out_exists, out_raster, i, subtile_names>>
    /\ UNCHANGED <<tileVars, partVars, coverVars, geoidVars, lookVars>>
    /\ UNCHANGED <<downloadVars, splatVars>>

\* Lines 746-752 for window k: the raster-info helper and gdallocationinfo
\* read <tmp>/k.tif; get_geoid_height touches no file
TaskMeasure(k) ==
    /\ pc = "tasks_running" /\ task_pc[k] = "measure"
    /\ \/ /\ accesses' = accesses \cup
                {[task |-> k, file |-> subtile_name(k), kind |-> "read"]}
          /\ task_pc' = [task_pc EXCEPT ![k] = "shade"]
          /\ UNCHANGED <<pc, raised>>
       \/ /\ \E e \in {"CalledProcessError", "ValueError"} : TaskFails(e)
          /\ UNCHANGED <<accesses, task_pc>>
    /\ UNCHANGED <<tileVars, partVars, coverVars, losVars, geoidVars,
                   lookVars>>
    /\ UNCHANGED <<downloadVars, splatVars>>

\* Lines 755-759 for window k: gdaldem hillshade reads and rewrites
\* <tmp>/k.tif
TaskShade(k) ==
    /\ pc = "tasks_running" /\ task_pc[k] = "shade"
    /\ \/ /\ tmp_files' =
                [tmp_files EXCEPT ![subtile_name(k)].state = "shaded"]
          /\ accesses' = accesses \cup
                {[task |-> k, file |-> subtile_name(k), kind |-> "read"],
                 [task |-> k, file |-> subtile_name(k), kind |-> "write"]}
          /\ task_pc' = [task_pc EXCEPT ![k] = "done"]
          /\ UNCHANGED <<pc, raised>>
       \/ /\ TaskFails("CalledProcessError")
          /\ UNCHANGED <<tmp_files, accesses, task_pc>>
    /\ UNCHANGED <<is_zip, make_shp, in_exists, hgt_exists, hgt_extracted,
                   tmp_exists,
                   out_exists, out_raster, i, subtile_names>>
    /\ UNCHANGED <<tileVars, partVars, coverVars, geoidVars, lookVars>>
    /\ UNCHANGED <<downloadVars, splatVars>>

\* The merge of line 763 waits for every task
TasksJoin ==
    /\ pc = "tasks_running"
    /\ \A k \in DOMAIN task_pc : task_pc[k] = "done"
    /\ pc' = "tasks_joined"
    /\ UNCHANGED <<raised, taskVars>>
    /\ UNCHANGED <<tileVars, partVars, coverVars, losVars, geoidVars,
                   lookVars>>
    /\ UNCHANGED <<downloadVars, splatVars>>

NextTasks ==
    \/ TasksFork
    \/ \E k \in DOMAIN task_pc :
          TaskTranslate(k) \/ TaskMeasure(k) \/ TaskShade(k)
    \/ TasksJoin

SpecTasks == InitTasks /\ [][NextTasks]_vars

\* --- download_topography ---

InitDownload ==
    /\ pc = "download"
    /\ raised = ""
    /\ tile_ids \in Lists(DownloadIds, MaxTileIds)
    /\ high_definition \in BOOLEAN
    /\ path_exists \in BOOLEAN
    /\ requested = <<>> /\ written = {}
    /\ lon = 0 /\ lat = 0
    /\ tile_id = <<>> /\ srtm_name = <<>> /\ srtm_names = <<>>
    /\ bounds = <<>>
    /\ geometries = <<>> /\ result = <<>>
    /\ transmitters = <<>> /\ transmitter_buffer = 0
    /\ PartIdle /\ LosIdle /\ GeoidIdle /\ LookIdle /\ TaskIdle /\ SplatIdle

\* Lines 338-356: check the ids, then create the output directory
DownloadCheck ==
    /\ pc = "download"
    /\ IF is_subset(tile_ids, SRTM_NZ_TILE_IDS)
       THEN /\ path_exists' = TRUE
            /\ pc' = "download_files"
            /\ UNCHANGED raised
       ELSE /\ raised' = "ValueError"
            /\ pc' = "download_raised"
            /\ UNCHANGED path_exists
    /\ UNCHANGED <<requested, written>>
    /\ UNCHANGED <<tileVars, partVars, coverVars, losVars, geoidVars,
                   lookVars, taskVars, splatVars>>

\* Lines 360-373: request the next file and write it
DownloadFile ==
    /\ pc = "download_files"
    /\ Len(requested) < Len(tile_ids)
    /\ LET name == file_names(tile_ids, high_definition)[Len(requested) + 1]
       IN  /\ requested' = Append(requested, name)
           /\ \/ /\ written' = written \cup {base_name(name)}
                 /\ UNCHANGED <<pc, raised>>
              \/ /\ raised' = "ValueError"
                 /\ pc' = "download_raised"
                 /\ UNCHANGED written
              \/ /\ raised' = "ConnectionError"
                 /\ pc' = "download_raised"
                 /\ UNCHANGED written
    /\ UNCHANGED path_exists
    /\ UNCHANGED <<tileVars, partVars, coverVars, losVars, geoidVars,
                   lookVars, taskVars, splatVars>>

\* The loop of line 359 ends
DownloadDone ==
    /\ pc = "download_files"
    /\ Len(requested) >= Len(tile_ids)
    /\ pc' = "download_done"
    /\ UNCHANGED <<raised, downloadVars>>
    /\ UNCHANGED <<tileVars, partVars, coverVars, losVars, geoidVars,
                   lookVars, taskVars, splatVars>>

NextDownload == DownloadCheck \/ DownloadFile \/ DownloadDone

SpecDownload == InitDownload /\ [][NextDownload]_vars

\* --- check_and_format_transmitters ---
\* transmitters holds the argument as given: the call alters the given
\* dictionaries in place, and returns them.

InitFormat ==
    /\ pc = "rows"
    /\ raised = ""
    /\ transmitters \in Lists(RowInputs, MaxTransmitters)
    /\ result = <<>>
    /\ geometries = <<>> /\ tile_ids = <<>> /\ transmitter_buffer = 0
    /\ TileIdle /\ PartIdle /\ LosIdle /\ GeoidIdle /\ LookIdle /\ TaskIdle
    /\ DownloadIdle /\ SplatIdle

CheckAndFormatTransmitters ==
    /\ pc = "rows"
    /\ LET r == check_and_format_transmitters(transmitters)
       IN  /\ raised' = r.raised
           /\ result' = r.val
           /\ pc' = IF r.raised = "" THEN "formatted" ELSE "format_raised"
    /\ UNCHANGED <<geometries, tile_ids, transmitters, transmitter_buffer>>
    /\ UNCHANGED <<tileVars, partVars, losVars, geoidVars, lookVars,
                   taskVars, downloadVars, splatVars>>

NextFormat == CheckAndFormatTransmitters

SpecFormat == InitFormat /\ [][NextFormat]_vars

\* --- process_transmitters, called directly or as the CLI command ---

InitSplat ==
    /\ pc \in {"cli_process_transmitters", "process_transmitters"}
    /\ raised = ""
    /\ transmitters \in Lists(SplatTransmitters, MaxTransmitters)
    /\ options \in OptionInputs
    /\ splat_files = <<>>
    /\ geometries = <<>> /\ tile_ids = <<>> /\ result = <<>>
    /\ transmitter_buffer = 0
    /\ TileIdle /\ PartIdle /\ LosIdle /\ GeoidIdle /\ LookIdle /\ TaskIdle
    /\ DownloadIdle

\* cli.py, lines 12-59
CliProcessTransmitters ==
    /\ pc = "cli_process_transmitters"
    /\ LET r == cli_process_transmitters(transmitters, options)
       IN  /\ raised' = r.raised
           /\ splat_files' = r.val
           /\ pc' = IF r.raised = "" THEN "cli_done" ELSE "cli_raised"
    /\ UNCHANGED options
    /\ UNCHANGED <<tileVars, partVars, coverVars, losVars, geoidVars,
                   lookVars, taskVars, downloadVars>>

\* main.py, lines 27-91
ProcessTransmitters ==
    /\ pc = "process_transmitters"
    /\ LET r == process_transmitters(transmitters, options)
       IN  /\ raised' = r.raised
           /\ splat_files' = r.val
           /\ pc' = IF r.raised = "" THEN "main_done" ELSE "main_raised"
    /\ UNCHANGED options
    /\ UNCHANGED <<tileVars, partVars, coverVars, losVars, geoidVars,
                   lookVars, taskVars, downloadVars>>

NextSplat == CliProcessTransmitters \/ ProcessTransmitters

SpecSplat == InitSplat /\ [][NextSplat]_vars

----------------------------------------------------------------------------
(* Properties *)

InRange(x, y) ==
    /\ -180 * UnitsPerDegree <= x /\ x <= 180 * UnitsPerDegree
    /\ -90 * UnitsPerDegree <= y /\ y <= 90 * UnitsPerDegree

\* The whole degree d with d <= x < d + 1
FloorDeg(x) ==
    CHOOSE d \in -200..200 :
        d * UnitsPerDegree <= x /\ x < (d + 1) * UnitsPerDegree

\* The form [N|S]DD[E|W]DDD with latitude <= 90 and longitude <= 180
WellFormed(t) ==
    /\ Len(t) = 7
    /\ t[1] \in {"N", "S"} /\ t[4] \in {"E", "W"}
    /\ \A k \in {2, 3, 5, 6, 7} : IsDigit(t[k])
    /\ DigitsValue(SubSeq(t, 2, 3)) <= 90
    /\ DigitsValue(SubSeq(t, 5, 7)) <= 180

\* The southwest corner, in whole degrees, that a well-formed id names
CornerLat(t) ==
    IF t[1] = "N" THEN DigitsValue(SubSeq(t, 2, 3))
    ELSE -DigitsValue(SubSeq(t, 2, 3))

CornerLon(t) ==
    IF t[4] = "E" THEN DigitsValue(SubSeq(t, 5, 7))
    ELSE -DigitsValue(SubSeq(t, 5, 7))

Lon27_5 == 27 * UnitsPerDegree + UnitsPerDegree \div 2

Lat3_64 == 3 * UnitsPerDegree + (64 * UnitsPerDegree) \div 100

S04E027 == <<"S", "0", "4", "E", "0", "2", "7">>
N03W028 == <<"N", "0", "3", "W", "0", "2", "8">>
S04W028 == <<"S", "0", "4", "W", "0", "2", "8">>
N04E028 == <<"N", "0", "4", "E", "0", "2", "8">>
S04E028 == <<"S", "0", "4", "E", "0", "2", "8">>
N04W028 == <<"N", "0", "4", "W", "0", "2", "8">>

InWindow(w, x, y) ==
    /\ w[1] <= x /\ x < w[1] + w[3]
    /\ w[2] <= y /\ y < w[2] + w[4]

\* C1: on every exit path of compute_satellite_los that has reached the
\* per-window loop (success, or failure of window extraction, elevation
\* query, geoid lookup, shading, mosaic build or mosaic materialisation), the
\* temporary directory and the .hgt file extracted from an archive input are
\* deleted when control returns to the caller.
C1_CleanupOnEveryExit ==
    (pc \in {"los_done", "los_raised"} /\ subtile_names # <<>>) =>
        ~tmp_exists /\ (is_zip => ~hgt_exists)

\* C2: for n >= 1 and width, height >= n, the windows of
\* partition(width, height, n) tile [0,width) x [0,height) exactly: every
\* pixel lies in exactly one window and no window leaves the rectangle.
C2_PartitionTiles ==
    (pc = "partitioned" /\ n >= 1 /\ width >= n /\ height >= n) =>
        /\ \A x \in 0..(width - 1), y \in 0..(height - 1) :
            Cardinality({k \in DOMAIN windows : InWindow(windows[k], x, y)}) = 1
        /\ \A k \in DOMAIN windows :
            /\ windows[k][1] >= 0 /\ windows[k][2] >= 0
            /\ windows[k][3] >= 0 /\ windows[k][4] >= 0
            /\ windows[k][1] + windows[k][3] <= width
            /\ windows[k][2] + windows[k][4] <= height

C2_Witness ==
    pc = "partitioned" /\ n = 3 /\ width = 7 /\ height = 5 /\ Len(windows) = 9

\* C3: for every lon in [-180, 180] and lat in [-90, 90], get_bounds of the
\* id that get_tile_id returns does not raise and contains (lon, lat).
C3_BoundsContainPoint ==
    InRange(lon, lat) =>
        /\ pc \notin {"tile_id_raised", "bounds_raised"}
        /\ pc = "bounds" =>
            /\ bounds[1] <= lon /\ lon <= bounds[3]
            /\ bounds[2] <= lat /\ lat <= bounds[4]

C3_Witness ==
    pc = "bounds" /\ lon = -Lon27_5 /\ lat = -Lat3_64 /\ high_definition

\* C4: get_tile_id names the cell whose southwest corner is
\* (floor(lon), floor(lat)): N/S and two digits of |floor(lat)|, then E/W and
\* three digits of |floor(lon)|; the four documented points give N03E027,
\* S04E027, N03W028 and S04W028.
C4_TileIdNamesFloorCell ==
    pc = "tile_id" =>
        /\ Len(tile_id) = 7
        /\ \A k \in {2, 3, 5, 6, 7} : IsDigit(tile_id[k])
        /\ tile_id[1] = (IF FloorDeg(lat) >= 0 THEN "N" ELSE "S")
        /\ DigitsValue(SubSeq(tile_id, 2, 3)) = abs(FloorDeg(lat))
        /\ tile_id[4] = (IF FloorDeg(lon) >= 0 THEN "E" ELSE "W")
        /\ DigitsValue(SubSeq(tile_id, 5, 7)) = abs(FloorDeg(lon))
        /\ (lon = Lon27_5 /\ lat = Lat3_64) => tile_id = N03E027
        /\ (lon = Lon27_5 /\ lat = -Lat3_64) => tile_id = S04E027
        /\ (lon = -Lon27_5 /\ lat = Lat3_64) => tile_id = N03W028
        /\ (lon = -Lon27_5 /\ lat = -Lat3_64) => tile_id = S04W028

C4_Witness ==
    pc = "tile_id" /\ lon = Lon27_5 /\ lat = -Lat3_64 /\ tile_id = S04E027

\* C5 as stated: the tile-id function gives N04E028, S04E028, N04W028 and
\* S04W028 at the four documented points.
C5_AsStated ==
    pc = "tile_id" =>
        /\ (lon = Lon27_5 /\ lat = Lat3_64) => tile_id = N04E028
        /\ (lon = Lon27_5 /\ lat = -Lat3_64) => tile_id = S04E028
        /\ (lon = -Lon27_5 /\ lat = Lat3_64) => tile_id = N04W028
        /\ (lon = -Lon27_5 /\ lat = -Lat3_64) => tile_id = S04W028

\* C5 amended: N04E028, S04E028, N04W028 and S04W028 are what the downloader's
\* get_srtm_tile_name returns at the four points; get_tile_id agrees with it
\* only at (-27.5, -3.64) and returns N03E027, S04E027 and N03W028 at the
\* other three.
C5_SrtmNameVersusTileId ==
    /\ pc = "srtm_name" =>
        /\ (lon = Lon27_5 /\ lat = Lat3_64) => srtm_name = N04E028
        /\ (lon = Lon27_5 /\ lat = -Lat3_64) => srtm_name = S04E028
        /\ (lon = -Lon27_5 /\ lat = Lat3_64) => srtm_name = N04W028
        /\ (lon = -Lon27_5 /\ lat = -Lat3_64) => srtm_name = S04W028
    /\ pc = "tile_id" =>
        /\ (lon = Lon27_5 /\ lat = Lat3_64) =>
            tile_id = N03E027 /\ tile_id # get_srtm_tile_name(lon, lat).val
        /\ (lon = Lon27_5 /\ lat = -Lat3_64) =>
            tile_id = S04E027 /\ tile_id # get_srtm_tile_name(lon, lat).val
        /\ (lon = -Lon27_5 /\ lat = Lat3_64) =>
            tile_id = N03W028 /\ tile_id # get_srtm_tile_name(lon, lat).val
        /\ (lon = -Lon27_5 /\ lat = -Lat3_64) =>
            tile_id = S04W028 /\ tile_id = get_srtm_tile_name(lon, lat).val

C5_Witness ==
    pc = "srtm_name" /\ lon = Lon27_5 /\ lat = -Lat3_64 /\ srtm_name = S04E028

\* C6: check_tile_id, and with it get_bounds, accepts only strings of the
\* exact form [N|S]DD[E|W]DDD with latitude <= 90 and longitude <= 180.
C6_OnlyWellFormedAccepted ==
    pc \in {"checked", "bounds"} => WellFormed(tile_id)

\* C7: get_tile_id raises ValueError and returns no id exactly when lon is
\* outside [-180, 180] or lat is outside [-90, 90].
C7_RaisesIffOutOfRange ==
    /\ pc = "tile_id_raised" =>
        ~InRange(lon, lat) /\ raised = "ValueError" /\ tile_id = <<>>
    /\ pc = "tile_id" => InRange(lon, lat) /\ raised = "" /\ tile_id # <<>>

C7_Witness ==
    pc = "tile_id_raised" /\ lon = 180 * UnitsPerDegree + 1 /\ lat = 0

\* C8: the bounds of a well-formed id can be obtained unpadded: for some
\* setting of the precision argument get_bounds returns exactly
\* [lon, lat, lon + 1, lat + 1] of the id's southwest corner.
C8_UnpaddedObtainable ==
    (pc = "bounds" /\ WellFormed(tile_id)) =>
        \E hd \in BOOLEAN :
            get_bounds(tile_id, hd).val =
                <<CornerLon(tile_id) * UnitsPerDegree,
                  CornerLat(tile_id) * UnitsPerDegree,
                  (CornerLon(tile_id) + 1) * UnitsPerDegree,
                  (CornerLat(tile_id) + 1) * UnitsPerDegree>>

Footprint(t) ==
    <<CornerLon(t) * UnitsPerDegree - 3, CornerLat(t) * UnitsPerDegree - 3,
      (CornerLon(t) + 1) * UnitsPerDegree + 3,
      (CornerLat(t) + 1) * UnitsPerDegree + 3>>

Max(a, b) == IF a >= b THEN a ELSE b

Min(a, b) == IF a <= b THEN a ELSE b

\* Two closed rectangles share a point
Overlap(a, b) ==
    /\ Max(a[1], b[1]) <= Min(a[3], b[3])
    /\ Max(a[2], b[2]) <= Min(a[4], b[4])

\* C10: compute_intersecting_tiles returns exactly the candidate ids whose
\* padded footprint intersects at least one geometry: none with a footprint
\* disjoint from every geometry, and no intersecting candidate omitted.
C10_ExactlyIntersecting ==
    pc = "selected" =>
        Range(result) =
            {t \in Range(tile_ids) :
                \E k \in DOMAIN geometries : Overlap(Footprint(t), geometries[k])}

C10_Witness ==
    /\ pc = "selected"
    /\ tile_ids = <<S36E175, S36E174>>
    /\ geometries = <<<<Deg(10), Deg(10), Deg(11), Deg(11)>>,
                      <<Deg(175) + 4, Deg(-36) - 3, Deg(175) + 4, Deg(-36) - 3>>>>
    /\ result = <<S36E175>>

\* C11: the list returned by compute_intersecting_tiles is in strictly
\* increasing lexicographic order of the id strings, so no id appears twice,
\* also when the candidate list repeats an id or several geometries hit the
\* same tile.
C11_StrictlyIncreasing ==
    pc = "selected" =>
        \A k \in 1..(Len(result) - 1) : StrLess(result[k], result[k + 1])

\* The candidate list repeats S36E174, which both geometries hit, and names
\* S36E175 before it.
C11_Witness ==
    /\ pc = "selected"
    /\ tile_ids = <<S36E175, S36E174, S36E174>>
    /\ geometries = <<<<Deg(174), Deg(-37), Deg(176), Deg(-35)>>,
                      <<Deg(175) + 3, Deg(-36) + UnitsPerDegree \div 2,
                        Deg(175) + 3, Deg(-36) + UnitsPerDegree \div 2>>>>
    /\ result = <<S36E174, S36E175>>

\* C12: get_covering_tiles_ids(transmitters, transmitter_buffer, tile_ids)
\* returns only ids that are members of the tile_ids argument.
C12_OnlyFromTileIds ==
    pc = "covered" => Range(result) \subseteq Range(tile_ids)

\* C13: partition(width, height, n) returns exactly n*n 4-tuples in row-major
\* order: with qw = floor(width/n) and qh = floor(height/n), the window at
\* index r*n + c (0 <= r, c < n) is (c*qw, r*qh, xs, ys) where xs = qw for
\* c < n-1 and qw + (width mod n) for c = n-1, and ys = qh for r < n-1 and
\* qh + (height mod n) for r = n-1; partition(10, 10, 3)[2] = (6, 0, 4, 3).
C13_RowMajorWindows ==
    pc = "partitioned" =>
        LET qw == width \div n
            qh == height \div n
        IN  /\ Len(windows) = n * n
            /\ \A r \in 0..(n - 1), c \in 0..(n - 1) :
                  windows[r * n + c + 1] =
                      <<c * qw, r * qh,
                        IF c < n - 1 THEN qw ELSE qw + (width % n),
                        IF r < n - 1 THEN qh ELSE qh + (height % n)>>
            /\ (width = 10 /\ height = 10 /\ n = 3) =>
                  windows[2 + 1] = <<6, 0, 4, 3>>

C13_Witness ==
    /\ pc = "partitioned" /\ width = 10 /\ height = 10 /\ n = 3
    /\ Len(windows) = 9 /\ windows[3] = <<6, 0, 4, 3>>

\* C14: for every n >= 1 and every raster with width >= 1 and height >= 1,
\* every window returned by partition(width, height, n) has x_size > 0 and
\* y_size > 0.
C14_PositiveSizes ==
    (pc = "partitioned" /\ n >= 1 /\ width >= 1 /\ height >= 1) =>
        \A k \in DOMAIN windows : windows[k][3] > 0 /\ windows[k][4] > 0

\* The name of the cell whose southwest corner is (i, j), in whole degrees
SouthwestName(di, dj) ==
    (<<IF dj >= 0 THEN "N" ELSE "S">> \o FormatD(abs(dj), 2))
    \o (<<IF di >= 0 THEN "E" ELSE "W">> \o FormatD(abs(di), 3))

\* The cell [i, i+1) x [j, j+1) holds a point of the closed box b
CellMeetsBox(di, dj, b) ==
    /\ di * UnitsPerDegree <= b[3] /\ b[1] < (di + 1) * UnitsPerDegree
    /\ dj * UnitsPerDegree <= b[4] /\ b[2] < (dj + 1) * UnitsPerDegree

\* C15: for a box with min <= max on each axis (inside the valid ranges),
\* get_srtm_tile_names returns the id of every 1-degree cell that intersects
\* the box and of no other cell: exactly one id, named by its southwest
\* corner, for each integer pair (i, j) with floor(min_lon) <= i <
\* ceil(max_lon) and floor(min_lat) <= j < ceil(max_lat), also for boxes
\* whose corners lie on integer degrees and boxes of zero width or height.
C15_CellsMeetingBox ==
    (/\ pc \in {"names", "names_raised"}
     /\ InRange(bounds[1], bounds[2]) /\ InRange(bounds[3], bounds[4])) =>
        /\ pc = "names"
        /\ Range(srtm_names) =
              {SouthwestName(di, dj) :
                  di \in floor(bounds[1])..(ceil(bounds[3]) - 1),
                  dj \in floor(bounds[2])..(ceil(bounds[4]) - 1)}
        /\ Range(srtm_names) =
              {SouthwestName(c[1], c[2]) :
                  c \in {d \in (-181..181) \X (-91..91) :
                            CellMeetsBox(d[1], d[2], bounds)}}
        /\ \A k, m \in DOMAIN srtm_names :
              srtm_names[k] = srtm_names[m] => k = m

\* C16: get_geoid_height surfaces a failure only after the retry budget is
\* used up: whenever it raises, exactly num_tries requests have been made,
\* whether the attempts failed because the service was unreachable, returned
\* a non-OK status, or returned a body that cannot be parsed.
C16_RaisesOnlyAfterAllTries ==
    pc = "geoid_raised" => Len(responses) = num_tries

\* Every sub-window has been extracted and shaded, and its file is there
AllWindowsShaded ==
    /\ Len(subtile_names) = Len(windows)
    /\ \A k \in DOMAIN subtile_names :
          /\ subtile_names[k] \in DOMAIN tmp_files
          /\ tmp_files[subtile_names[k]].state = "shaded"

\* The call ended in a step of the loop over the sub-windows: window i was
\* begun and its extraction, elevation query, geoid lookup or shading failed
FailedInWindow ==
    /\ pc = "los_raised" /\ tmp_exists /\ subtile_names # <<>>
    /\ \/ subtile_name(i) \notin DOMAIN tmp_files
       \/ tmp_files[subtile_name(i)].state # "shaded"

MosaicFiles == {merged_vrt, merged_tif}

\* C17: when an external tool returns a nonzero status or the geoid lookup
\* fails for some sub-window, compute_satellite_los aborts at that step: no
\* later sub-window is processed, no mosaic is built, nothing is moved to
\* out_path, and the error of the failing step reaches the caller at once
\* (no retry, no partial result).
C17_AbortsAtFailingStep ==
    /\ raised # "" <=> pc = "los_raised"
    /\ pc = "los_raised" => ~ENABLED Next
    /\ FailedInWindow =>
          /\ raised \in {"CalledProcessError", "ValueError"}
          /\ Len(subtile_names) = i + 1
          /\ DOMAIN tmp_files \subseteq {subtile_name(k) : k \in 0..i}
          /\ \A k \in 0..(i - 1) : tmp_files[subtile_name(k)].state = "shaded"
          /\ DOMAIN tmp_files \cap MosaicFiles = {}
          /\ ~out_exists /\ out_raster = <<>>

\* The geoid lookup fails for the second of four sub-windows
C17_Witness ==
    /\ FailedInWindow /\ raised = "ValueError"
    /\ n = 2 /\ i = 1 /\ Len(windows) = 4
    /\ tmp_files[subtile_name(0)].state = "shaded"
    /\ tmp_files[subtile_name(1)].state = "extracted"

\* C18: the mosaic is built and out_path is written only after all n*n
\* sub-windows have been extracted and shaded; in a run where a sub-window
\* step fails, no file is ever written at out_path.
C18_MergeOnlyAfterAllWindows ==
    /\ (pc \in {"los_buildvrt", "los_materialise", "los_move"}
        \/ DOMAIN tmp_files \cap MosaicFiles # {}) =>
          AllWindowsShaded /\ Len(subtile_names) = n * n
    /\ out_exists =>
          /\ Len(subtile_names) = n * n /\ i = n * n - 1
          /\ tmp_exists => AllWindowsShaded
    /\ FailedInWindow => ~out_exists

\* The mosaic of four shaded sub-windows is about to be moved to out_path
C18_Witness ==
    /\ pc = "los_move" /\ n = 2 /\ Len(subtile_names) = 4
    /\ AllWindowsShaded /\ merged_tif \in DOMAIN tmp_files /\ ~out_exists

C20_AnglesInRange ==
    pc = "looked" =>
        /\ 0 <= look[1] /\ look[1] < 360 * AngleDen
        /\ -90 * AngleDen <= look[2] /\ look[2] <= 90 * AngleDen

\* The arguments (0, 45, 0, s) of the reference table
AtTablePoint ==
    /\ geodetic.lon = 0
    /\ geodetic.lat = 45 * AngleUnit
    /\ geodetic.height = 0

\* Two angles that agree to one decimal place, less the 0.004 degree by
\* which the fixed-point angles may differ from the doubles
SameToOneDecimal(a, b) == abs(a - b) < AngleUnit \div 20 - 4 * (AngleUnit \div 1000)

\* C21: for each satellite longitude s of the reference table,
\* compute_look_angles(0, 45, 0, s) agrees to one decimal place with the
\* table's azimuth and elevation (for s = 0: 180.0 and 38.2); the call with
\* -s returns the same elevation and the azimuth mirrored about 180 degrees.
C21_ReferenceTable ==
    (pc = "looked_at" /\ AtTablePoint) =>
        LET s == geodetic.satellite_lon
            mirrored == compute_look_angles_at(
                            [geodetic EXCEPT !.satellite_lon = -s]).angles
        IN  /\ SameToOneDecimal(look[1], expect[s][1])
            /\ SameToOneDecimal(look[2], expect[s][2])
            /\ s = 0 => /\ SameToOneDecimal(look[1], 180 * AngleUnit)
                        /\ SameToOneDecimal(look[2], 382 * (AngleUnit \div 10))
            /\ mirrored[2] = look[2]
            /\ mirrored[1] - 180 * AngleUnit = 180 * AngleUnit - look[1]

C21_Witness ==
    /\ pc = "looked_at"
    /\ AtTablePoint
    /\ geodetic.satellite_lon = -776914
    /\ look = <<2612590, -166>>

\* The files the sequential loop leaves in the temporary directory for the
\* windows ws: window k, shaded, under the name k.tif
SequentialFiles(ws) ==
    [name \in {subtile_name(k - 1) : k \in DOMAIN ws} |->
        [state |-> "shaded",
         window |-> ws[CHOOSE k \in DOMAIN ws : subtile_name(k - 1) = name]]]

\* C22: with the per-window tasks run concurrently and joined before the
\* merge, in every interleaving a file written by one task is neither
\* written nor read by another task, and at the join the temporary
\* directory holds the shaded files of the sequential loop.
C22_TasksIndependent ==
    /\ \A a, b \in accesses :
          (a.kind = "write" /\ a.file = b.file) => a.task = b.task
    /\ pc = "tasks_joined" => tmp_files = SequentialFiles(windows)

C22_Witness ==
    /\ pc = "tasks_joined"
    /\ n = 2
    /\ Cardinality({a.task : a \in {b \in accesses : b.kind = "write"}}) = 4
    /\ Cardinality(DOMAIN tmp_files) = 4

\* C23: when the given tile ids are not all New Zealand tile ids,
\* download_topography raises ValueError, for both definitions, and neither
\* creates the output directory, nor issues a request, nor writes a file.
C23_RejectsBeforeAnyEffect ==
    [][(pc = "download" /\ ~(Range(tile_ids) \subseteq Range(SRTM_NZ_TILE_IDS)))
        => /\ raised' = "ValueError"
           /\ pc' = "download_raised"
           /\ path_exists' = path_exists
           /\ requested' = <<>>
           /\ written' = {}]_vars

C23_Witness ==
    /\ pc = "download_raised"
    /\ tile_ids = <<S36E174, N00E000>>
    /\ high_definition
    /\ raised = "ValueError"
    /\ ~path_exists
    /\ requested = <<>>

\* The LRP files among the files written
LrpFiles ==
    {name \in DOMAIN splat_files :
        /\ Len(name) >= Len(lrp)
        /\ PySliceFrom(name, Len(name) - Len(lrp)) = lrp}

\* C24: the Earth conductivity in every LRP file written by the CLI command
\* process_transmitters is the value of its --earth_conductivity option
\* (0.005 when the option is not given), whatever the value of
\* --earth_dielectric_constant.
C24_ConductivityFromOption ==
    pc = "cli_done" =>
        \A name \in LrpFiles :
            splat_files[name].earth_conductivity =
                get(options, "earth_conductivity", EARTH_CONDUCTIVITY)

\* A string that float() converts
Converts(s) == PyFloat(s).ok

\* The given list is empty, or a transmitter lacks a required field, or a
\* numeric field of a transmitter is no float
Unacceptable(ts) ==
    \/ ts = <<>>
    \/ \E k \in DOMAIN ts :
          \/ ~(Range(REQUIRED_TRANSMITTER_FIELDS) \subseteq DOMAIN ts[k])
          \/ \E key \in Range(float_keys) \cap DOMAIN ts[k] :
                ~Converts(ts[k][key])

\* C25: check_and_format_transmitters raises ValueError when the list is
\* empty, when a transmitter lacks a required field or when a numeric field
\* of a row is no float; otherwise it returns one row per input row, in
\* input order, each with the name built from network_name and site_name
\* and with its six numeric fields as floats.
C25_ChecksAndFormats ==
    pc \in {"formatted", "format_raised"} =>
        IF Unacceptable(transmitters)
        THEN pc = "format_raised" /\ raised = "ValueError"
        ELSE /\ pc = "formatted" /\ raised = ""
             /\ Len(result) = Len(transmitters)
             /\ \A k \in DOMAIN transmitters :
                   LET t == transmitters[k]
                       new == result[k]
                   IN  /\ DOMAIN new = DOMAIN t \cup {"name"}
                       /\ new["name"] =
                            SelectSeq(t["network_name"], LAMBDA c : c # " ")
                            \o <<"_">>
                            \o SelectSeq(t["site_name"], LAMBDA c : c # " ")
                       /\ new["site_name"] = t["site_name"]
                       /\ new["network_name"] = t["network_name"]
                       /\ \A key \in Range(float_keys) :
                             new[key] = [float |-> PyFloat(t[key]).val]

C25_Witness ==
    /\ pc = "formatted"
    /\ Len(transmitters) = 2
    /\ transmitters[1] # transmitters[2]
    /\ result[1]["name"] = <<"M", "y", "_", "1">>
    /\ result[1]["latitude"] = [float |-> -45500]
    /\ result[2]["power_eirp"] = [float |-> 7000]

\* The names 0.tif, 1.tif, ... of the first m windows, in partition order
TifNames(m) == [k \in 1..m |-> Digits(k - 1) \o <<".", "t", "i", "f">>]

\* What holds of the sub-window files in every state of the pipeline
WindowFilesNamed ==
    /\ subtile_names = TifNames(Len(subtile_names))
    /\ \A j, k \in DOMAIN subtile_names :
          j # k => subtile_names[j] # subtile_names[k]
    /\ \A k \in DOMAIN subtile_names :
          subtile_names[k] \in DOMAIN tmp_files =>
              tmp_files[subtile_names[k]].window =
                  partition(width, height, n)[k]
    /\ pc \in {"los_buildvrt", "los_materialise", "los_move"} =>
          /\ subtile_names = TifNames(n * n)
          /\ DOMAIN tmp_files \ MosaicFiles = Range(subtile_names)
          /\ \A k \in 1..(n * n) : tmp_files[subtile_names[k]].state = "shaded"

\* A file is created by the extraction of the current window, and is shaded
\* in the step that follows its extraction and in no other
ShadedOnce ==
    \A name \in DOMAIN tmp_files' \ MosaicFiles :
        /\ name \notin DOMAIN tmp_files =>
              /\ pc = "los_translate"
              /\ name = subtile_names'[i + 1]
              /\ tmp_files'[name].state = "extracted"
        /\ name \in DOMAIN tmp_files =>
              \/ tmp_files'[name] = tmp_files[name]
              \/ /\ pc = "los_shade"
                 /\ name = subtile_names[i + 1]
                 /\ tmp_files[name].state = "extracted"
                 /\ tmp_files'[name].state = "shaded"

\* C26: in compute_satellite_los the i-th window of
\* partition(width, height, n) is written to the file i.tif, the n*n names
\* are pairwise distinct, each file is shaded once, and the mosaic is built
\* from exactly these n*n files, listed in partition order.
C26_WindowsToNumberedFiles == []WindowFilesNamed /\ [][ShadedOnce]_vars

C26_Witness ==
    /\ pc = "los_materialise" /\ n = 2
    /\ subtile_names = <<subtile_name(0), subtile_name(1), subtile_name(2),
                         subtile_name(3)>>
    /\ tmp_files[subtile_name(3)] =
          [state |-> "shaded", window |-> partition(width, height, 2)[4]]
    /\ merged_vrt \in DOMAIN tmp_files

\* C27: the fraction of situations in every LRP file written by
\* process_transmitters is the fraction_of_situations argument of its
\* caller (0.5 when not given), as the dielectric constant, conductivity,
\* radio climate and fraction of time are their arguments.
C27_FractionOfSituationsFromArgument ==
    pc = "main_done" =>
        \A name \in LrpFiles :
            /\ splat_files[name].fraction_of_situations =
                  get(options, "fraction_of_situations",
                      FRACTION_OF_SITUATIONS)
            /\ splat_files[name].earth_dielectric_constant =
                  get(options, "earth_dielectric_constant",
                      EARTH_DIELECTRIC_CONSTANT)
            /\ splat_files[name].earth_conductivity =
                  get(options, "earth_conductivity", EARTH_CONDUCTIVITY)
            /\ splat_files[name].radio_climate =
                  get(options, "radio_climate", RADIO_CLIMATE)
            /\ splat_files[name].fraction_of_time =
                  get(options, "fraction_of_time", FRACTION_OF_TIME)

\* The number that a string of decimal digits writes
NumberOf(s) == DigitsValue(s)

\* C28: for -180 <= lon <= 180 and -90 <= lat <= 90 the string returned by
\* get_tile_id has 7 characters: N or S, two digits of a latitude magnitude
\* of at most 90, E or W, three digits of a longitude magnitude of at most
\* 180; check_tile_id accepts it, and so does get_bounds.
C28_TileIdAccepted ==
    /\ (pc = "tile_id" /\ InRange(lon, lat)) =>
          /\ Len(tile_id) = 7
          /\ tile_id[1] \in {"N", "S"}
          /\ \A k \in {2, 3, 5, 6, 7} : IsDigit(tile_id[k])
          /\ NumberOf(SubSeq(tile_id, 2, 3)) <= 90
          /\ tile_id[4] \in {"E", "W"}
          /\ NumberOf(SubSeq(tile_id, 5, 7)) <= 180
          /\ check_tile_id(tile_id)
    /\ (pc = "lonlat" /\ InRange(lon, lat)) => get_tile_id(lon, lat).raised = ""
    /\ pc # "bounds_raised"

C28_Witness ==
    /\ pc = "tile_id"
    /\ lon = Deg(-180) /\ lat = Deg(90)
    /\ tile_id = <<"N", "9", "0", "W", "1", "8", "0">>

\* A step removes the .hgt file beside the input
HgtRemoved == hgt_exists /\ ~hgt_exists'

\* C29: compute_satellite_los never deletes its input, be it a plain .hgt
\* file or a .zip, whether the call returns or raises; the only file it
\* removes outside its temporary directory is a .hgt file that it extracted
\* from a .zip input itself.
C29_InputKept ==
    /\ []in_exists
    /\ [][HgtRemoved => (is_zip /\ hgt_extracted)]_vars

\* A .zip input has been processed to the end: the extracted .hgt file is
\* gone and the .zip is still there
C29_Witness ==
    /\ pc = "los_done"
    /\ is_zip /\ hgt_extracted
    /\ ~hgt_exists /\ in_exists

\* The number of the first response with an OK status, 0 when there is none
FirstOk ==
    LET oks == {k \in DOMAIN responses : responses[k].status_code = codes_ok}
    IN  IF oks = {} THEN 0 ELSE CHOOSE k \in oks : \A j \in oks : k <= j

\* C30: get_geoid_height never issues more than num_tries requests, issues
\* no request after the first response with an OK status, returns the height
\* parsed from that response when it returns, and with num_tries = 0 raises
\* ValueError without issuing any request.
C30_BoundedRequests ==
    /\ Len(responses) <= num_tries
    /\ FirstOk \in {0, Len(responses)}
    /\ pc = "geoid_returned" =>
          /\ FirstOk > 0
          /\ geoid_height = <<PyFloat(responses[FirstOk].text).val>>
    /\ (num_tries = 0 /\ pc # "geoid") =>
          pc = "geoid_raised" /\ raised = "ValueError"

\* A height was returned from the last permitted request, after the
\* responses before it had a status other than OK
C30_Witness ==
    /\ pc = "geoid_returned"
    /\ num_tries > 1 /\ Len(responses) = num_tries
    /\ geoid_height = <<28700>>

====
